---- MODULE Spec2Model ----
(***************************************************************************)
(* A model of the core of rs3cache: the CacheIndex handle                  *)
(* (rs3cache_core/src/index.rs), the BufExtra read layer and its errors    *)
(* (rs3cache_backend/src/buf.rs), decompress, the catalog parser, the      *)
(* grouped map square iterator and the parts of the map renderer that      *)
(* consume it.                                                             *)
(*                                                                         *)
(*   Spec       the typed-state handle: archive, retain, into_iter, next   *)
(*   SpecBuf    the reads of BufExtra applied to a byte buffer             *)
(*   SpecSmarts the accumulation loop of BufExtra::get_smarts              *)
(*   SpecMasked BufExtra::get_masked_data                                  *)
(*   SpecDec    decompress                                                 *)
(*   SpecMeta   IndexMetadata::deserialize                                 *)
(*   SpecGroup  GroupMapSquareIterator                                     *)
(*   SpecErr    ReadError and its context frames                           *)
(*   SpecStruct Struct::deserialize                                        *)
(*   SpecPixel  the plane search of save_smallest                          *)
(*   SpecRender inner_render: groups rendered by parallel workers          *)
(***************************************************************************)
EXTENDS Integers, Sequences, FiniteSets, TLC

VARIABLES
    \* ---- CacheIndex<S> and index::IntoIter ----
    index_id,      \* CacheIndex::index_id
    metadatas,     \* CacheIndex::metadatas : archive id -> Metadata
    state,         \* the handle's position: "Initial", "Truncated", "IntoIter", "Panicked"
    feed,          \* Truncated::feed, then IntoIter::feed (the ids not yet visited)
    store_reads,   \* number of get_file calls made so far
    store_arg,     \* the Metadata the latest get_file call was given, <<>> before it
    last,          \* the last call on the handle and what it returned
    requested,     \* the archive ids IntoIter::next passed to archive, in call order
    retained,      \* the argument of the retain call, <<>> before it
    from_state,    \* the state into_iter was called in, "" before it
    direct_calls,  \* number of archive calls made by the holder of the handle
    none_calls,    \* number of next calls that found the feed exhausted
    \* ---- a byte buffer read through BufExtra ----
    buf,           \* the bytes that remain (Buf::chunk), first unread byte first
    pre,           \* the bytes that remained before the last read
    op,            \* the last read, [name, n]
    res,           \* what the last read returned
    \* ---- the loop of get_smarts ----
    sm_lead,       \* number of 0xFF 0xFF pairs the buffer began with
    sm_buf,        \* the bytes that remain after those pairs
    sm_in,         \* the bytes that followed those pairs when the call began
    sm_value,      \* the local `value`
    sm_read,       \* the unsigned smarts the loop has read from sm_in
    sm_pc,         \* "loop", "done", "panic_overflow", "panic_eof"
    \* ---- a call of decompress ----
    dec_build,     \* the cargo feature the crate is built with: "rs3", "dat2", "dat"
    dec_in,        \* encoded_data
    dec_size,      \* filesize, an Option
    dec_key,       \* xtea, an Option (None in a build without dat2)
    dec_out,       \* what decompress returned, [tag, err, val]
    \* ---- a call of IndexMetadata::deserialize ----
    cat_index,     \* index_id
    cat_checks,    \* whether the build has overflow checks (debug) or not (release)
    cat_src,       \* the catalog the blob was serialised from, [kind |-> "raw"] if none
    cat_in,        \* the bytes of buffer
    cat_out,       \* what deserialize returned
    \* ---- a GroupMapSquareIterator over the MAPSV2 index ----
    grp_keys,      \* the archive ids that are keys of the index's metadatas
    grp_pc,        \* "new" before a constructor ran, then "iter" or "panicked"
    grp_coords,    \* the coordinates given to new_only, <<>> after new
    grp_dx,        \* the range dx as <<lo, hi>>
    grp_dy,        \* the range dy as <<lo, hi>>
    grp_feed,      \* the core ids still to be visited
    grp_count,     \* number of groups next has yielded
    grp_last,      \* what the latest call of next returned
    \* ---- a ReadError on its way up the call stack ----
    err_debug,     \* whether the build has debug_assertions
    err_cur,       \* the error value in flight, <<>> before one is raised
    err_prev,      \* the value the latest add_* call was applied to, <<>> before it
    err_primary,   \* the value the constructor returned
    err_calls,     \* number of add_* calls made on it
    \* ---- a call of Struct::deserialize ----
    st_debug,      \* whether the build has debug_assertions
    st_in,         \* file
    st_buf,        \* the bytes of buffer that remain
    st_ops,        \* the opcodes the loop has read, in order
    st_params,     \* r#struct.params, an Option
    st_out,        \* what the call ended with, StRunning while it loops
    \* ---- save_smallest computing one pixel of one plane's base image ----
    px_imgs,       \* imgs at (x, y): the pixel of each of the four planes
    px_plane,      \* plane
    px_iter,       \* the iterator i: the planes it has yet to yield
    px_used,       \* the values of p so far
    px_out,        \* the pixel the closure returned, NoPixel before
    px_pc,         \* "loop", "done", or "ub" after undefined behaviour
    \* ---- inner_render: workers fed by par_bridge ----
    rnd_zoom,      \* CONFIG.initial_zoom
    rnd_job,       \* per worker, the position of the item it holds, 0 when idle
    rnd_items,     \* the items the iterator has yielded, [id, i, j], in order
    rnd_saved      \* number of groups rendered so far

idx_vars == <<index_id, metadatas, state, feed, store_reads, store_arg, last, requested,
              retained, from_state, direct_calls, none_calls>>
buf_vars == <<buf, pre, op, res>>
sm_vars  == <<sm_lead, sm_buf, sm_in, sm_value, sm_read, sm_pc>>
dec_vars == <<dec_build, dec_in, dec_size, dec_key, dec_out>>
cat_vars == <<cat_index, cat_checks, cat_src, cat_in, cat_out>>
grp_vars == <<grp_keys, grp_pc, grp_coords, grp_dx, grp_dy, grp_feed, grp_count, grp_last>>
err_vars == <<err_debug, err_cur, err_prev, err_primary, err_calls>>
st_vars  == <<st_debug, st_in, st_buf, st_ops, st_params, st_out>>
px_vars  == <<px_imgs, px_plane, px_iter, px_used, px_out, px_pc>>
rnd_vars == <<rnd_zoom, rnd_job, rnd_items, rnd_saved>>
more_vars == <<err_vars, st_vars, px_vars, rnd_vars>>
core_vars == <<idx_vars, buf_vars, sm_vars, dec_vars, cat_vars, grp_vars>>
vars     == <<core_vars, more_vars>>

----------------------------------------------------------------------------
(* Bounds *)

MaxArchiveId   == 2    \* archive ids range over 0..MaxArchiveId
MaxFeedLen     == 3    \* longest id list handed to retain
MaxDirectCalls == 1    \* archive calls made outside the iterator
MaxNoneCalls   == 2    \* next calls made after the feed is exhausted
MaxBufLen      == 4    \* longest byte buffer

ArchiveIds == 0 .. MaxArchiveId
IndexIds   == {2, 5}

----------------------------------------------------------------------------
(* Arithmetic on fixed-width integers *)

\* TLC integers are 32-bit signed, so a u32 is kept as two 16-bit limbs
\* <<hi, lo>> (value hi * 2^16 + lo) and a u64 as four limbs, most significant
\* first.  u8, i8, u16 and i32 values are plain integers.
U16 == 65536

RECURSIVE BitAnd(_, _)
BitAnd(a, b) ==
    IF a = 0 \/ b = 0 THEN 0
    ELSE (IF a % 2 = 1 /\ b % 2 = 1 THEN 1 ELSE 0) + 2 * BitAnd(a \div 2, b \div 2)

RECURSIVE BitOr(_, _)
BitOr(a, b) ==
    IF a = 0 THEN b
    ELSE IF b = 0 THEN a
    ELSE (IF a % 2 = 1 \/ b % 2 = 1 THEN 1 ELSE 0) + 2 * BitOr(a \div 2, b \div 2)

\* x << n on a u16
Shl16(x, n) == (x * (2 ^ n)) % U16

\* `v as u32` for a u16 v
AsU32(v) == <<0, v>>

\* Mutant of checked_add: the sum wraps around
wrapping_add(x, y) ==
    LET lo == x[2] + y[2]
        hi == x[1] + y[1] + (lo \div U16)
    IN  << <<hi % U16, lo % U16>> >>

\* u32::checked_add: <<>> on overflow, else <<sum>>
checked_add(x, y) ==
    LET lo == x[2] + y[2]
        hi == x[1] + y[1] + (lo \div U16)
    IN  IF hi >= U16 THEN <<>> ELSE << <<hi, lo % U16>> >>

----------------------------------------------------------------------------
(* Sequences *)

\* The tuples of length at most n over S
SeqsUpTo(S, n) == UNION {[1 .. k -> S] : k \in 0 .. n}

Drop(s, n) == SubSeq(s, n + 1, Len(s))

----------------------------------------------------------------------------
(* Metadata and IndexMetadata *)

\* struct Metadata: the two key fields
Metadata(idx, id) == [index_id |-> idx, archive_id |-> id]

\* Mutant of KeysOf: the keys in descending order
RECURSIVE KeysOfDescending(_)
KeysOfDescending(S) ==
    IF S = {} THEN <<>>
    ELSE LET m == CHOOSE x \in S : \A y \in S : x >= y
         IN <<m>> \o KeysOfDescending(S \ {m})

\* IndexMetadata::keys: the keys of a BTreeMap, ascending
RECURSIVE KeysOf(_)
KeysOf(S) ==
    IF S = {} THEN <<>>
    ELSE LET m == CHOOSE x \in S : \A y \in S : x <= y
         IN <<m>> \o KeysOf(S \ {m})

keys == KeysOf(DOMAIN metadatas)

----------------------------------------------------------------------------
(* CacheIndex::archive *)

Result(tag, a, b) == [tag |-> tag, a |-> a, b |-> b]

ArchiveNotFoundError(idx, id) == Result("ArchiveNotFoundError", idx, id)

\* What the backing store may answer to a read
StoreOutcomes == {"Ok", "StoreError"}

\* CacheIndex::get_file(metadata): reads the store with `metadata`
get_file(metadata, outcome) ==
    [res   |-> Result(outcome, metadata.index_id, metadata.archive_id),
     reads |-> store_reads + 1,
     arg   |-> <<metadata>>]

\* Mutant of archive: the error carries its two ids in the wrong order
archive_swapped(archive_id, outcome) ==
    IF archive_id \notin DOMAIN metadatas
    THEN [res |-> ArchiveNotFoundError(archive_id, index_id), reads |-> store_reads,
          arg |-> store_arg]
    ELSE LET metadata == metadatas[archive_id]
             data     == get_file(metadata, outcome)
         IN  IF data.res.tag # "Ok"
             THEN data
             ELSE [res   |-> Result("Ok", metadata.index_id, metadata.archive_id),
                   reads |-> data.reads,
                   arg   |-> data.arg]

archive(archive_id, outcome) ==
    IF archive_id \notin DOMAIN metadatas
    THEN [res |-> ArchiveNotFoundError(index_id, archive_id), reads |-> store_reads,
          arg |-> store_arg]
    ELSE LET metadata == metadatas[archive_id]
             data     == get_file(metadata, outcome)
         IN  IF data.res.tag # "Ok"
             THEN data
             ELSE [res   |-> Result("Ok", metadata.index_id, metadata.archive_id),
                   reads |-> data.reads,
                   arg   |-> data.arg]

----------------------------------------------------------------------------
(* CacheIndex<Initial>::retain *)

\* Mutant of FindMissing: the last id is not looked at
FindMissingButLast(ids, all_ids) ==
    LET bad == {k \in 1 .. Len(ids) - 1 : ids[k] \notin all_ids}
    IN  IF bad = {} THEN <<>>
        ELSE <<ids[CHOOSE k \in bad : \A l \in bad : k <= l]>>

\* ids.iter().find(|id| !all_ids.contains(id))
FindMissing(ids, all_ids) ==
    LET bad == {k \in 1 .. Len(ids) : ids[k] \notin all_ids}
    IN  IF bad = {} THEN <<>>
        ELSE <<ids[CHOOSE k \in bad : \A l \in bad : k <= l]>>

\* Mutant of retain: the feed is collected into a sorted set
retain_sorted(ids) ==
    LET all_ids == DOMAIN metadatas
        missing == FindMissing(ids, all_ids)
    IN  IF missing # <<>>
        THEN [state |-> "Panicked", feed |-> <<>>, metadatas |-> metadatas,
              index_id |-> index_id, missing_id |-> missing]
        ELSE [state |-> "Truncated", feed |-> KeysOf({ids[k] : k \in 1 .. Len(ids)}),
              metadatas |-> metadatas, index_id |-> index_id, missing_id |-> <<>>]

retain(ids) ==
    LET all_ids == DOMAIN metadatas
        missing == FindMissing(ids, all_ids)
    IN  IF missing # <<>>
        THEN [state |-> "Panicked", feed |-> <<>>, metadatas |-> metadatas,
              index_id |-> index_id, missing_id |-> missing]
        ELSE [state |-> "Truncated", feed |-> ids, metadatas |-> metadatas,
              index_id |-> index_id, missing_id |-> <<>>]

----------------------------------------------------------------------------
(* into_iter *)

\* impl IntoIterator for CacheIndex<Initial>
into_iter_initial ==
    [feed |-> keys, metadatas |-> metadatas, index_id |-> index_id]

\* Mutant of into_iter_truncated: only the metadata of the feed is kept
into_iter_truncated_filtered ==
    [feed |-> feed,
     metadatas |-> [k \in {feed[j] : j \in 1 .. Len(feed)} |-> metadatas[k]],
     index_id |-> index_id]

\* impl IntoIterator for CacheIndex<Truncated>
into_iter_truncated ==
    [feed |-> feed, metadatas |-> metadatas, index_id |-> index_id]

----------------------------------------------------------------------------
(* The handle as a state machine *)

NoCall == [op |-> "open", arg |-> <<>>, ret |-> Result("None", 0, 0)]

InitIdx ==
    /\ index_id \in IndexIds
    /\ \E ks \in SUBSET ArchiveIds :
           metadatas = [k \in ks |-> Metadata(index_id, k)]
    /\ state = "Initial"
    /\ feed = <<>>
    /\ store_reads = 0
    /\ store_arg = <<>>
    /\ last = NoCall
    /\ requested = <<>>
    /\ retained = <<>>
    /\ from_state = ""
    /\ direct_calls = 0
    /\ none_calls = 0

\* every action of the handle leaves the buffer and the get_smarts loop alone
IdxFrame == UNCHANGED <<buf_vars, sm_vars, dec_vars, cat_vars, grp_vars, more_vars>>

\* the holder of a handle calls archive(id)
Archive(id, outcome) ==
    /\ state \in {"Initial", "Truncated", "IntoIter"}
    /\ direct_calls < MaxDirectCalls
    /\ LET r == archive(id, outcome)
       IN  /\ last' = [op |-> "archive", arg |-> <<id>>, ret |-> r.res]
           /\ store_reads' = r.reads
           /\ store_arg' = r.arg
    /\ direct_calls' = direct_calls + 1
    /\ UNCHANGED <<index_id, metadatas, state, feed, requested, retained,
                   from_state, none_calls>>
    /\ IdxFrame

Retain(ids) ==
    /\ state = "Initial"
    /\ LET r == retain(ids)
       IN  /\ state' = r.state
           /\ feed' = r.feed
           /\ metadatas' = r.metadatas
           /\ index_id' = r.index_id
           /\ last' = [op |-> "retain", arg |-> ids,
                       ret |-> IF r.state = "Panicked"
                               THEN Result("Panic", r.missing_id[1], 0)
                               ELSE Result("Truncated", 0, 0)]
    /\ retained' = ids
    /\ UNCHANGED <<store_reads, store_arg, requested, from_state, direct_calls, none_calls>>
    /\ IdxFrame

IntoIterInitial ==
    /\ state = "Initial"
    /\ LET r == into_iter_initial
       IN  /\ feed' = r.feed
           /\ metadatas' = r.metadatas
           /\ index_id' = r.index_id
    /\ state' = "IntoIter"
    /\ from_state' = "Initial"
    /\ last' = [op |-> "into_iter", arg |-> <<>>, ret |-> Result("IntoIter", 0, 0)]
    /\ UNCHANGED <<store_reads, store_arg, requested, retained, direct_calls, none_calls>>
    /\ IdxFrame

IntoIterTruncated ==
    /\ state = "Truncated"
    /\ LET r == into_iter_truncated
       IN  /\ feed' = r.feed
           /\ metadatas' = r.metadatas
           /\ index_id' = r.index_id
    /\ state' = "IntoIter"
    /\ from_state' = "Truncated"
    /\ last' = [op |-> "into_iter", arg |-> <<>>, ret |-> Result("IntoIter", 0, 0)]
    /\ UNCHANGED <<store_reads, store_arg, requested, retained, direct_calls, none_calls>>
    /\ IdxFrame

\* Mutant of next: an id whose archive fails is left in the feed
next_rewinding_on_err(outcome) ==
    IF feed = <<>>
    THEN [item |-> Result("None", 0, 0), feed |-> feed, reads |-> store_reads,
          arg |-> store_arg, requested |-> requested]
    ELSE LET archive_id == Head(feed)
             r == archive(archive_id, outcome)
         IN  [item |-> r.res, feed |-> IF r.res.tag = "Ok" THEN Tail(feed) ELSE feed,
              reads |-> r.reads, arg |-> r.arg,
              requested |-> Append(requested, archive_id)]

\* IntoIter::next: self.feed.next().map(|archive_id| self.index.archive(archive_id))
next(outcome) ==
    IF feed = <<>>
    THEN [item |-> Result("None", 0, 0), feed |-> feed, reads |-> store_reads,
          arg |-> store_arg, requested |-> requested]
    ELSE LET archive_id == Head(feed)
             r == archive(archive_id, outcome)
         IN  [item |-> r.res, feed |-> Tail(feed), reads |-> r.reads,
              arg |-> r.arg, requested |-> Append(requested, archive_id)]

\* IntoIter::size_hint: self.feed.size_hint(), (len, Some(len)) of vec::IntoIter
size_hint == <<Len(feed), <<Len(feed)>>>>

IterNext(outcome) ==
    /\ state = "IntoIter"
    /\ feed = <<>> => none_calls < MaxNoneCalls
    /\ LET r == next(outcome)
       IN  /\ feed' = r.feed
           /\ store_reads' = r.reads
           /\ store_arg' = r.arg
           /\ requested' = r.requested
           /\ last' = [op |-> "next", arg |-> <<>>, ret |-> r.item]
    /\ none_calls' = IF feed = <<>> THEN none_calls + 1 ELSE none_calls
    /\ UNCHANGED <<index_id, metadatas, state, retained, from_state, direct_calls>>
    /\ IdxFrame

NextIdx ==
    \/ \E id \in ArchiveIds, o \in StoreOutcomes : Archive(id, o)
    \/ \E ids \in SeqsUpTo(ArchiveIds, MaxFeedLen) : Retain(ids)
    \/ IntoIterInitial
    \/ IntoIterTruncated
    \/ \E o \in StoreOutcomes : IterNext(o)

----------------------------------------------------------------------------
(* Properties of the handle (Spec) *)

Range(s) == {s[k] : k \in 1 .. Len(s)}

StrictlyAscending(s) == \A k \in 1 .. Len(s) - 1 : s[k] < s[k + 1]

\* C1: iterating a CacheIndex<Initial> requests exactly the archive ids that
\* are keys of metadatas, each once, in ascending order: what has been
\* requested followed by what the feed still holds is at every moment the
\* strictly ascending list of all keys, and once next has returned None every
\* key has been requested.
C1_InitialIterationVisitsKeysAscending ==
    (state = "IntoIter" /\ from_state = "Initial") =>
        LET whole == requested \o feed
        IN  /\ StrictlyAscending(whole)
            /\ Range(whole) = DOMAIN metadatas
            /\ (last.op = "next" /\ last.ret.tag = "None") =>
                   /\ Range(requested) = DOMAIN metadatas
                   /\ StrictlyAscending(requested)

C1_Witness ==
    /\ from_state = "Initial"
    /\ last.op = "next" /\ last.ret.tag = "None"
    /\ Len(requested) = 3

\* C2: after retain(ids) succeeds, iterating the Truncated index visits
\* exactly the sequence ids: same length, same positions, repeats included,
\* and no id outside ids.
C2_TruncatedIterationVisitsFeedInOrder ==
    (state = "IntoIter" /\ from_state = "Truncated") =>
        /\ requested \o feed = retained
        /\ (last.op = "next" /\ last.ret.tag = "None") => requested = retained

C2_Witness ==
    /\ from_state = "Truncated"
    /\ last.op = "next" /\ last.ret.tag = "None"
    /\ Len(requested) = 3
    /\ requested[1] = requested[3]
    /\ requested[2] < requested[1]

\* C3: retain(ids) panics if and only if some id of ids is not a key of
\* metadatas; with every id known (ids empty included) it returns a Truncated
\* handle, and a panicking call produces no Truncated handle.
C3_RetainPanicsIffUnknownId ==
    LET unknown == \E k \in 1 .. Len(retained) : retained[k] \notin DOMAIN metadatas
    IN  /\ last.op = "retain" =>
               /\ state \in {"Panicked", "Truncated"}
               /\ (state = "Panicked") <=> unknown
               /\ (last.ret.tag = "Panic") <=> unknown
               /\ state = "Truncated" => feed = retained
        /\ state = "Panicked" => (unknown /\ last.op = "retain" /\ feed = <<>>)
        /\ (state = "Truncated" \/ from_state = "Truncated") => ~unknown

C3_Witness ==
    /\ last.op = "retain"
    /\ state = "Panicked"
    /\ Len(retained) = 3
    /\ retained[1] \in DOMAIN metadatas
    /\ retained[2] \in DOMAIN metadatas

\* C4: archive(id), on a handle in any state, fails with
\* ArchiveNotFoundError(index_id, id) exactly when id is not a key of
\* metadatas, and then the backing store is not read; when id is a key the
\* store is read once, with the metadata stored under id.
C4_ArchiveNotFoundIffNoKey ==
    [][\A id \in ArchiveIds :
          ((direct_calls' = direct_calls + 1 /\ last'.arg = <<id>>)
              \/ requested' = Append(requested, id)) =>
          /\ (last'.ret = ArchiveNotFoundError(index_id, id)) <=> (id \notin DOMAIN metadatas)
          /\ (last'.ret.tag = "ArchiveNotFoundError") <=> (id \notin DOMAIN metadatas)
          /\ id \notin DOMAIN metadatas =>
                 store_reads' = store_reads /\ store_arg' = store_arg
          /\ id \in DOMAIN metadatas =>
                 /\ store_reads' = store_reads + 1
                 /\ store_arg' = <<metadatas[id]>>
                 /\ metadatas[id].archive_id = id]_vars

C4_Witness ==
    /\ state = "IntoIter"
    /\ last.op = "archive"
    /\ last.ret.tag = "ArchiveNotFoundError"
    /\ store_reads > 0

\* C5: the metadata of an index is read-only after open: no archive, retain,
\* into_iter or next call changes index_id or the metadatas mapping.
C5_MetadataReadOnly ==
    [][metadatas' = metadatas /\ index_id' = index_id]_vars

C5_Witness ==
    /\ state = "IntoIter"
    /\ from_state = "Truncated"
    /\ requested # <<>>
    /\ \E id \in DOMAIN metadatas : id \notin Range(retained)

\* the feed the iterator was built with
StartFeed == IF from_state = "Truncated" THEN retained ELSE keys

\* number of next calls made on the iterator
NextCalls == Len(requested) + none_calls

\* C25: IntoIter::next consumes exactly one feed id per call whether
\* archive(id) succeeds or fails: an Err item neither stops nor rewinds the
\* iteration and the ids after it are still visited; for a feed of n ids,
\* size_hint after k calls is (n-k, Some(n-k)), the n-th call is the last to
\* return an item, and every later call returns None.
C25_NextConsumesOneIdPerCall ==
    [][(state = "IntoIter" /\ (requested' # requested \/ none_calls' # none_calls)) =>
          LET n == Len(StartFeed)
              k == NextCalls
          IN  /\ last'.op = "next"
              /\ NextCalls' = k + 1
              /\ k <= n => size_hint = <<n - k, <<n - k>>>>
              /\ k < n =>
                     /\ feed' = Tail(feed)
                     /\ requested' = Append(requested, StartFeed[k + 1])
                     /\ last'.ret.tag \in {"Ok", "StoreError", "ArchiveNotFoundError"}
                     /\ size_hint' = <<n - (k + 1), <<n - (k + 1)>>>>
              /\ k >= n =>
                     /\ feed' = <<>> /\ feed = <<>>
                     /\ requested' = requested
                     /\ last'.ret.tag = "None"
                     /\ size_hint' = <<0, <<0>>>>]_vars

\* the second of three ids failed in the store: the call consumed it and
\* the third is still to come
C25_Witness ==
    /\ state = "IntoIter"
    /\ last.op = "next"
    /\ last.ret.tag = "StoreError"
    /\ Len(StartFeed) = 3
    /\ requested = SubSeq(StartFeed, 1, 2)
    /\ feed = <<StartFeed[3]>>
    /\ size_hint = <<1, <<1>>>>

----------------------------------------------------------------------------
(* bytes::Buf over an in-memory buffer.  A read returns [tag, val, buf]:   *)
(* tag "Ok" with the value and the bytes left, "Panic" when the unchecked  *)
(* read runs off the end, or a ReadErrorKind.                              *)

ByteVals == {0, 1, 5, 35, 127, 128, 255}

Rd(tag, val, rest) == [tag |-> tag, val |-> val, buf |-> rest]

remaining(b) == Len(b)

get_u8(b) ==
    IF Len(b) < 1 THEN Rd("Panic", 0, b) ELSE Rd("Ok", b[1], Drop(b, 1))

get_i8(b) ==
    IF Len(b) < 1 THEN Rd("Panic", 0, b)
    ELSE Rd("Ok", IF b[1] >= 128 THEN b[1] - 256 ELSE b[1], Drop(b, 1))

get_u16(b) ==
    IF Len(b) < 2 THEN Rd("Panic", 0, b)
    ELSE Rd("Ok", b[1] * 256 + b[2], Drop(b, 2))

get_u32(b) ==
    IF Len(b) < 4 THEN Rd("Panic", 0, b)
    ELSE Rd("Ok", <<b[1] * 256 + b[2], b[3] * 256 + b[4]>>, Drop(b, 4))

get_i32(b) ==
    IF Len(b) < 4 THEN Rd("Panic", 0, b)
    ELSE LET top == IF b[1] >= 128 THEN b[1] - 256 ELSE b[1]
         IN  Rd("Ok", ((top * 256 + b[2]) * 256 + b[3]) * 256 + b[4], Drop(b, 4))

get_uint(b, nbytes) ==
    IF nbytes > 8 \/ Len(b) < nbytes THEN Rd("Panic", 0, b)
    ELSE LET at(k) == IF k <= 8 - nbytes THEN 0 ELSE b[k - (8 - nbytes)]
         IN  Rd("Ok", <<at(1) * 256 + at(2), at(3) * 256 + at(4),
                        at(5) * 256 + at(6), at(7) * 256 + at(8)>>,
                Drop(b, nbytes))

----------------------------------------------------------------------------
(* BufExtra: the checked fixed-width reads *)

Eof(b) == Rd("Eof", 0, b)

try_get_u8(b)  == IF remaining(b) >= 1 THEN get_u8(b)  ELSE Eof(b)
try_get_i8(b)  == IF remaining(b) >= 1 THEN get_i8(b)  ELSE Eof(b)
try_get_u16(b) == IF remaining(b) >= 2 THEN get_u16(b) ELSE Eof(b)
try_get_i32(b) == IF remaining(b) >= 4 THEN get_i32(b) ELSE Eof(b)

\* Mutant of try_get_u32: the length check is one byte short
try_get_u32_short(b) == IF remaining(b) >= 3 THEN get_u32(b) ELSE Eof(b)

try_get_u32(b) == IF remaining(b) >= 4 THEN get_u32(b) ELSE Eof(b)

try_get_uint(b, nbytes) ==
    IF remaining(b) >= nbytes THEN get_uint(b, nbytes) ELSE Eof(b)

----------------------------------------------------------------------------
(* BufExtra: the smart codecs.  An Option is <<>> or <<v>>. *)

\* Mutant of try_get_smart32: the high bit of the long form is not masked off
try_get_smart32_unmasked(b) ==
    IF b = <<>> THEN Eof(b)
    ELSE LET condition == BitAnd(b[1], 128) = 128
         IN  IF condition
             THEN LET r == try_get_u32(b)
                  IN  IF r.tag # "Ok" THEN r
                      ELSE Rd("Ok", <<r.val>>, r.buf)
             ELSE LET r == try_get_u16(b)
                  IN  IF r.tag # "Ok" THEN r
                      ELSE LET value == AsU32(r.val)
                           IN  Rd("Ok", IF value = <<0, 32767>> THEN <<>> ELSE <<value>>,
                                  r.buf)

try_get_smart32(b) ==
    IF b = <<>> THEN Eof(b)
    ELSE LET condition == BitAnd(b[1], 128) = 128
         IN  IF condition
             THEN LET r == try_get_u32(b)
                  IN  IF r.tag # "Ok" THEN r
                      ELSE Rd("Ok", << <<BitAnd(r.val[1], 32767), r.val[2]>> >>, r.buf)
             ELSE LET r == try_get_u16(b)
                  IN  IF r.tag # "Ok" THEN r
                      ELSE LET value == AsU32(r.val)
                           IN  Rd("Ok", IF value = <<0, 32767>> THEN <<>> ELSE <<value>>,
                                  r.buf)

get_smart32(b) ==
    IF b = <<>> THEN Rd("Panic", 0, b)
    ELSE LET condition == BitAnd(b[1], 128) = 128
         IN  IF condition
             THEN LET r == get_u32(b)
                  IN  IF r.tag # "Ok" THEN r
                      ELSE Rd("Ok", << <<BitAnd(r.val[1], 32767), r.val[2]>> >>, r.buf)
             ELSE LET r == get_u16(b)
                  IN  IF r.tag # "Ok" THEN r
                      ELSE LET value == AsU32(r.val)
                           IN  Rd("Ok", IF value = <<0, 32767>> THEN <<>> ELSE <<value>>,
                                  r.buf)

try_get_unsigned_smart(b) ==
    LET r1 == try_get_u8(b)
    IN  IF r1.tag # "Ok" THEN r1
        ELSE LET i == r1.val
             IN  IF i >= 128
                 THEN LET r2 == try_get_u8(r1.buf)
                      IN  IF r2.tag # "Ok" THEN r2
                          ELSE Rd("Ok", BitOr(Shl16(i - 128, 8), r2.val), r2.buf)
                 ELSE Rd("Ok", i, r1.buf)

\* Mutant of get_unsigned_smart: the marker bit of the first byte is kept
get_unsigned_smart_marked(b) ==
    LET r1 == get_u8(b)
    IN  IF r1.tag # "Ok" THEN r1
        ELSE LET i == r1.val
             IN  IF i >= 128
                 THEN LET r2 == get_u8(r1.buf)
                      IN  IF r2.tag # "Ok" THEN r2
                          ELSE Rd("Ok", BitOr(Shl16(i, 8), r2.val), r2.buf)
                 ELSE Rd("Ok", i, r1.buf)

get_unsigned_smart(b) ==
    LET r1 == get_u8(b)
    IN  IF r1.tag # "Ok" THEN r1
        ELSE LET i == r1.val
             IN  IF i >= 128
                 THEN LET r2 == get_u8(r1.buf)
                      IN  IF r2.tag # "Ok" THEN r2
                          ELSE Rd("Ok", BitOr(Shl16(i - 128, 8), r2.val), r2.buf)
                 ELSE Rd("Ok", i, r1.buf)

----------------------------------------------------------------------------
(* BufExtra: strings *)

\* b'\0' (the build without the `dat` feature)
Terminator == 0

\* memchr::memchr(terminator, chunk): 0-based position of the first
\* terminator, <<>> when there is none
memchr(c, b) ==
    LET hits == {k \in 1 .. Len(b) : b[k] = c}
    IN  IF hits = {} THEN <<>>
        ELSE <<(CHOOSE k \in hits : \A l \in hits : k <= l) - 1>>

\* Mutant of try_get_string: the terminator is left in the buffer
try_get_string_keeps_terminator(b) ==
    LET found == memchr(Terminator, b)
    IN  IF found = <<>> THEN Rd("NotNulTerminated", 0, b)
        ELSE LET nul_pos == found[1]
                 s == SubSeq(b, 1, nul_pos)
             IN  Rd("Ok", s, Drop(b, nul_pos))

try_get_string(b) ==
    LET found == memchr(Terminator, b)
    IN  IF found = <<>> THEN Rd("NotNulTerminated", 0, b)
        ELSE LET nul_pos == found[1]
                 s == SubSeq(b, 1, nul_pos)
             IN  Rd("Ok", s, Drop(b, nul_pos + 1))

get_string(b) ==
    LET found == memchr(Terminator, b)
    IN  IF found = <<>> THEN Rd("Panic", 0, b)
        ELSE LET nul_pos == found[1]
                 s == SubSeq(b, 1, nul_pos)
             IN  Rd("Ok", s, Drop(b, nul_pos + 1))

----------------------------------------------------------------------------
(* BufExtra: masked data *)

\* u16::checked_sub as an Option
checked_sub(a, c) == IF a >= c THEN <<a - c>> ELSE <<>>

get_decr_smart(b) ==
    LET r1 == get_u8(b)
    IN  IF r1.tag # "Ok" THEN r1
        ELSE LET first == r1.val
             IN  IF first < 128 THEN Rd("Ok", checked_sub(first, 1), r1.buf)
                 ELSE LET r2 == get_u8(r1.buf)
                      IN  IF r2.tag # "Ok" THEN r2
                          ELSE LET word == BitOr(Shl16(first, 8), r2.val)
                                   base == checked_sub(word, 32768)
                               IN  IF base = <<>> THEN Rd("Panic", 0, r2.buf)
                                   ELSE Rd("Ok", checked_sub(base[1], 1), r2.buf)

\* Option<u16>::map(|c| c as u32)
MapAsU32(o) == IF o = <<>> THEN <<>> ELSE <<AsU32(o[1])>>

\* Mutant of masked_loop: a clear bit pushes nothing
RECURSIVE masked_loop_skipping(_, _, _)
masked_loop_skipping(mask, b, result) ==
    IF mask > 0
    THEN IF BitAnd(mask, 1) = 1
         THEN LET a == get_smart32(b)
              IN  IF a.tag # "Ok" THEN Rd("Panic", 0, a.buf)
                  ELSE LET d == get_decr_smart(a.buf)
                       IN  IF d.tag # "Ok" THEN Rd("Panic", 0, d.buf)
                           ELSE masked_loop_skipping(mask \div 2, d.buf,
                                    Append(result, <<a.val, MapAsU32(d.val)>>))
         ELSE masked_loop_skipping(mask \div 2, b, result)
    ELSE Rd("Ok", result, b)

\* the while loop of get_masked_data
RECURSIVE masked_loop(_, _, _)
masked_loop(mask, b, result) ==
    IF mask > 0
    THEN IF BitAnd(mask, 1) = 1
         THEN LET a == get_smart32(b)
              IN  IF a.tag # "Ok" THEN Rd("Panic", 0, a.buf)
                  ELSE LET d == get_decr_smart(a.buf)
                       IN  IF d.tag # "Ok" THEN Rd("Panic", 0, d.buf)
                           ELSE masked_loop(mask \div 2, d.buf,
                                    Append(result, <<a.val, MapAsU32(d.val)>>))
         ELSE masked_loop(mask \div 2, b, Append(result, <<<<>>, <<>>>>))
    ELSE Rd("Ok", result, b)

get_masked_data(b) ==
    LET m == get_u8(b)
    IN  IF m.tag # "Ok" THEN m ELSE masked_loop(m.val, m.buf, <<>>)

----------------------------------------------------------------------------
(* The buffer as a state machine: one action per read *)

UintWidths == 1 .. 8

InitBuf ==
    /\ buf \in SeqsUpTo(ByteVals, MaxBufLen)
    /\ pre = buf
    /\ op = [name |-> "new", n |-> 0]
    /\ res = [tag |-> "None", val |-> 0]

Read(name, n, r) ==
    /\ res.tag # "Panic"
    /\ pre' = buf
    /\ op' = [name |-> name, n |-> n]
    /\ res' = [tag |-> r.tag, val |-> r.val]
    /\ buf' = r.buf
    /\ UNCHANGED <<idx_vars, sm_vars, dec_vars, cat_vars, grp_vars, more_vars>>

TryGetU8  == Read("try_get_u8", 1, try_get_u8(buf))
TryGetI8  == Read("try_get_i8", 1, try_get_i8(buf))
TryGetU16 == Read("try_get_u16", 2, try_get_u16(buf))
TryGetI32 == Read("try_get_i32", 4, try_get_i32(buf))
TryGetU32 == Read("try_get_u32", 4, try_get_u32(buf))
TryGetUint(nbytes) == Read("try_get_uint", nbytes, try_get_uint(buf, nbytes))
TryGetSmart32 == Read("try_get_smart32", 0, try_get_smart32(buf))
GetSmart32 == Read("get_smart32", 0, get_smart32(buf))
TryGetUnsignedSmart == Read("try_get_unsigned_smart", 0, try_get_unsigned_smart(buf))
GetUnsignedSmart == Read("get_unsigned_smart", 0, get_unsigned_smart(buf))
TryGetString == Read("try_get_string", 0, try_get_string(buf))
GetString == Read("get_string", 0, get_string(buf))
GetDecrSmart == Read("get_decr_smart", 0, get_decr_smart(buf))
GetMaskedData == Read("get_masked_data", 0, get_masked_data(buf))

NextBuf ==
    \/ TryGetU8
    \/ TryGetI8
    \/ TryGetU16
    \/ TryGetI32
    \/ TryGetU32
    \/ \E nbytes \in UintWidths : TryGetUint(nbytes)
    \/ TryGetSmart32
    \/ GetSmart32
    \/ TryGetUnsignedSmart
    \/ GetUnsignedSmart
    \/ TryGetString
    \/ GetString
    \/ GetDecrSmart

----------------------------------------------------------------------------
(* Properties of the reads (SpecBuf) *)

IsPrefix(p, s) == Len(p) <= Len(s) /\ SubSeq(s, 1, Len(p)) = p

\* byte k (1 = most significant) of the N-byte two's complement form of v
ByteOf(v, k, N) == (v \div (256 ^ (N - k))) % 256

\* byte k (1 = most significant) of the N-byte form of a value kept as
\* 16-bit limbs, and whether the limbs hold nothing above N bytes
LimbByte(limbs, k, N) ==
    LET p == k + (2 * Len(limbs) - N)
        w == limbs[(p + 1) \div 2]
    IN  IF p % 2 = 1 THEN w \div 256 ELSE w % 256

LimbsFit(limbs, N) ==
    \A p \in 1 .. 2 * Len(limbs) - N :
        (IF p % 2 = 1 THEN limbs[(p + 1) \div 2] \div 256
                      ELSE limbs[(p + 1) \div 2] % 256) = 0

\* the value a fixed-width read must return for the bytes it consumed
IsBigEndianValue(name, N, v, bytes) ==
    CASE name \in {"try_get_u8", "try_get_u16"} ->
             /\ v \in 0 .. (256 ^ N) - 1
             /\ \A k \in 1 .. N : ByteOf(v, k, N) = bytes[k]
      [] name = "try_get_i8" ->
             /\ v \in -128 .. 127
             /\ ByteOf(v, 1, 1) = bytes[1]
      [] name = "try_get_i32" ->
             /\ (v < 0) <=> (bytes[1] >= 128)
             /\ \A k \in 1 .. 4 : ByteOf(v, k, 4) = bytes[k]
      [] name = "try_get_u32" ->
             /\ Len(v) = 2
             /\ \A j \in 1 .. 2 : v[j] \in 0 .. 65535
             /\ \A k \in 1 .. 4 : LimbByte(v, k, 4) = bytes[k]
      [] name = "try_get_uint" ->
             /\ Len(v) = 4
             /\ \A j \in 1 .. 4 : v[j] \in 0 .. 65535
             /\ LimbsFit(v, N)
             /\ \A k \in 1 .. N : LimbByte(v, k, N) = bytes[k]

FixedWidth(name, n) ==
    CASE name \in {"try_get_u8", "try_get_i8"} -> 1
      [] name = "try_get_u16" -> 2
      [] name \in {"try_get_i32", "try_get_u32"} -> 4
      [] name = "try_get_uint" -> n

FixedReads == {"try_get_u8", "try_get_i8", "try_get_u16", "try_get_i32",
               "try_get_u32", "try_get_uint"}

\* C6: a fixed-width checked read of width N returns Eof and leaves the
\* cursor unchanged when fewer than N bytes remain; otherwise it returns the
\* big-endian value of the next N bytes and the cursor advances by exactly N.
C6_FixedWidthCheckedReads ==
    op.name \in FixedReads =>
        LET N == FixedWidth(op.name, op.n)
        IN  IF Len(pre) < N
            THEN res.tag = "Eof" /\ buf = pre
            ELSE /\ res.tag = "Ok"
                 /\ buf = Drop(pre, N)
                 /\ IsBigEndianValue(op.name, N, res.val, SubSeq(pre, 1, N))

C6_Witness ==
    /\ op.name = "try_get_u32"
    /\ Len(pre) = 3
    /\ res.tag = "Eof"
    /\ buf = pre

VariableReads == {"try_get_unsigned_smart", "try_get_smart32", "try_get_string"}

\* C7: a failing variable-width checked read (try_get_unsigned_smart,
\* try_get_smart32, try_get_string) leaves as many bytes remaining as there
\* were before the call.
C7_FailedVariableReadKeepsCursor ==
    (op.name \in VariableReads /\ res.tag # "Ok") => Len(buf) = Len(pre)

\* the two variable-width reads that do keep the cursor on failure
C7_FailedSmart32AndStringKeepCursor ==
    (op.name \in {"try_get_smart32", "try_get_string"} /\ res.tag # "Ok") => buf = pre

\* the canonical unsigned_smart encoding of x
EncodeUnsignedSmart(x) ==
    IF x < 128 THEN <<x>> ELSE <<128 + (x \div 256), x % 256>>

\* every x of [0, 0x7FFF) whose encoding the modelled buffers can hold
SmartSamples ==
    {x \in 0 .. 32766 : \A k \in DOMAIN EncodeUnsignedSmart(x) :
                            EncodeUnsignedSmart(x)[k] \in ByteVals}

UnsignedSmartReads == {"get_unsigned_smart", "try_get_unsigned_smart"}

\* C8: unsigned_smart decoding returns b and consumes 1 byte when the first
\* byte b < 0x80, and returns ((b - 0x80) << 8) | b2 and consumes 2 bytes
\* otherwise; every x in [0, 0x7FFF) in its canonical encoding decodes to x.
C8_UnsignedSmartDecoding ==
    op.name \in UnsignedSmartReads =>
        /\ (Len(pre) >= 1 /\ pre[1] < 128) =>
               /\ res.tag = "Ok"
               /\ res.val = pre[1]
               /\ buf = Drop(pre, 1)
        /\ (Len(pre) >= 2 /\ pre[1] >= 128) =>
               /\ res.tag = "Ok"
               /\ res.val = (pre[1] - 128) * 256 + pre[2]
               /\ buf = Drop(pre, 2)
        /\ \A x \in SmartSamples :
               IsPrefix(EncodeUnsignedSmart(x), pre) =>
                   /\ res.tag = "Ok"
                   /\ res.val = x
                   /\ Len(pre) - Len(buf) = (IF x < 128 THEN 1 ELSE 2)

C8_Witness ==
    /\ op.name = "get_unsigned_smart"
    /\ IsPrefix(<<255, 35>>, pre)
    /\ res.tag = "Ok"
    /\ res.val = 32547
    /\ Len(buf) = Len(pre) - 2

\* the long form of a smart32 holding the u32 <<hi, lo>>, hi < 2^15
EncodeSmart32Long(x) ==
    <<128 + (x[1] \div 256), x[1] % 256, x[2] \div 256, x[2] % 256>>

\* every x < 2^31 whose long form the modelled buffers can hold
Smart32Samples ==
    LET his == {h \in 0 .. 32767 : 128 + (h \div 256) \in ByteVals /\ h % 256 \in ByteVals}
        los == {l \in 0 .. 65535 : l \div 256 \in ByteVals /\ l % 256 \in ByteVals}
    IN  his \X los

Smart32Reads == {"try_get_smart32", "get_smart32"}

\* C9: smart32 decoding: with the high bit of the first byte set, 4 bytes are
\* consumed and the result is Some(big-endian u32 with the high bit cleared),
\* so the long form of any x < 2^31 yields Some(x); otherwise 2 bytes are
\* consumed as a big-endian u16 and the result is absent iff that value is
\* 0x7FFF, else Some(value); try_get_smart32 on an empty buffer returns Eof.
C9_Smart32Decoding ==
    op.name \in Smart32Reads =>
        /\ (Len(pre) >= 4 /\ pre[1] >= 128) =>
               /\ res.tag = "Ok"
               /\ buf = Drop(pre, 4)
               /\ res.val = << <<(pre[1] - 128) * 256 + pre[2], pre[3] * 256 + pre[4]>> >>
        /\ (Len(pre) >= 2 /\ pre[1] < 128) =>
               /\ res.tag = "Ok"
               /\ buf = Drop(pre, 2)
               /\ (res.val = <<>>) <=> (pre[1] * 256 + pre[2] = 32767)
               /\ res.val # <<>> => res.val = << <<0, pre[1] * 256 + pre[2]>> >>
        /\ \A x \in Smart32Samples :
               IsPrefix(EncodeSmart32Long(x), pre) =>
                   res.tag = "Ok" /\ res.val = <<x>> /\ buf = Drop(pre, 4)
        /\ (op.name = "try_get_smart32" /\ pre = <<>>) =>
               res.tag = "Eof" /\ buf = pre

C9_Witness ==
    /\ op.name = "try_get_smart32"
    /\ IsPrefix(<<128, 0, 0, 5>>, pre)
    /\ res.tag = "Ok"
    /\ res.val = << <<0, 5>> >>

----------------------------------------------------------------------------
(* BufExtra::get_smarts, one action per iteration of its loop.             *)
(*                                                                         *)
(* An overflow needs more than 131076 reads of 0x7FFF, so the buffer is    *)
(* kept as sm_lead pairs 0xFF 0xFF followed by sm_in, and a behaviour      *)
(* starts where the loop stands after reading those pairs: each of them    *)
(* added 0x7FFF to `value` without overflow.                               *)

\* the largest number of 0x7FFF values whose sum fits in a u32
SmMaxLead == 2 * 65536 + 4

SmLeads == {0, 1, SmMaxLead - 1, SmMaxLead}

\* hi * 2^16 + lo as a u32, for lo of either sign; hi >= 2^16 when it does not fit
Limbs(hi, lo) == <<hi + (lo \div U16), lo % U16>>

\* n * 0x7FFF = n * 2^15 - n as limbs
TimesSentinel(n) == Limbs(n \div 2, (n % 2) * 32768 - n)

InitSmarts ==
    /\ sm_lead \in SmLeads
    /\ sm_in \in SeqsUpTo(ByteVals, MaxBufLen)
    /\ sm_buf = sm_in
    /\ sm_value = TimesSentinel(sm_lead)
    /\ sm_read = <<>>
    /\ sm_pc = "loop"

\* one pass through `loop { match self.get_unsigned_smart() as u32 { .. } }`
get_smarts_step(value, b) ==
    LET r == get_unsigned_smart(b)
    IN  IF r.tag # "Ok"
        THEN [pc |-> "panic_eof", value |-> value, buf |-> b, read |-> <<>>]
        ELSE LET offset == AsU32(r.val)
                 sum == checked_add(value, offset)
             IN  IF sum = <<>>
                 THEN [pc |-> "panic_overflow", value |-> value, buf |-> r.buf,
                       read |-> <<r.val>>]
                 ELSE [pc |-> IF r.val = 32767 THEN "loop" ELSE "done",
                       value |-> sum[1], buf |-> r.buf, read |-> <<r.val>>]

GetSmartsStep ==
    /\ sm_pc = "loop"
    /\ LET r == get_smarts_step(sm_value, sm_buf)
       IN  /\ sm_pc' = r.pc
           /\ sm_value' = r.value
           /\ sm_buf' = r.buf
           /\ sm_read' = sm_read \o r.read
    /\ UNCHANGED <<sm_lead, sm_in>>
    /\ UNCHANGED <<idx_vars, buf_vars, dec_vars, cat_vars, grp_vars, more_vars>>

NextSmarts == GetSmartsStep

----------------------------------------------------------------------------
(* Properties of get_smarts (SpecSmarts) *)

RECURSIVE SumSeq(_)
SumSeq(s) == IF s = <<>> THEN 0 ELSE Head(s) + SumSeq(Tail(s))

\* the successive unsigned_smart values a byte string holds
RECURSIVE DecodeSmarts(_)
DecodeSmarts(bytes) ==
    IF bytes = <<>> THEN <<>>
    ELSE IF bytes[1] < 128 THEN <<bytes[1]>> \o DecodeSmarts(Drop(bytes, 1))
    ELSE IF Len(bytes) < 2 THEN <<-1>>
    ELSE <<(bytes[1] - 128) * 256 + bytes[2]>> \o DecodeSmarts(Drop(bytes, 2))

\* the sum of everything read so far, not reduced modulo 2^32
SmTrueSum ==
    LET lead == TimesSentinel(sm_lead)
    IN  Limbs(lead[1], lead[2] + SumSeq(sm_read))

SmConsumed == SubSeq(sm_in, 1, Len(sm_in) - Len(sm_buf))

\* C10: get_smarts returns the sum of the successive unsigned_smart values
\* read up to and including the first one that is not 0x7FFF and consumes
\* exactly those bytes; when the running sum exceeds the u32 maximum it
\* panics and never returns a wrapped-around value.
C10_SmartsSumOrPanic ==
    /\ sm_pc = "done" =>
           /\ sm_read # <<>>
           /\ \A k \in 1 .. Len(sm_read) - 1 : sm_read[k] = 32767
           /\ sm_read[Len(sm_read)] # 32767
           /\ sm_value = SmTrueSum
           /\ SmTrueSum[1] < U16
           /\ sm_in = SmConsumed \o sm_buf
           /\ DecodeSmarts(SmConsumed) = sm_read
    /\ SmTrueSum[1] >= U16 => sm_pc = "panic_overflow"
    /\ sm_pc = "panic_overflow" => SmTrueSum[1] >= U16

C10_Witness ==
    /\ sm_pc = "panic_overflow"
    /\ sm_lead = SmMaxLead - 1
    /\ sm_read = <<32767, 5>>

----------------------------------------------------------------------------
(* Masked data (SpecMasked): a mask byte followed by encoded pairs *)

MaxPairs == 2    \* most encoded pairs that follow the mask byte

MaskVals == {0, 1, 2, 5, 6, 128}

\* encodings of a smart32: short, short sentinel (absent), long
Smart32Chunks == {<<0, 1>>, <<127, 255>>, <<128, 0, 0, 5>>}

\* encodings of a decr_smart: 0 (absent), 5, long 0 (absent), long 0x7FFF
DecrChunks == {<<0>>, <<5>>, <<128, 0>>, <<255, 255>>}

PairChunks == {a \o d : a \in Smart32Chunks, d \in DecrChunks}

RECURSIVE Flatten(_)
Flatten(ss) == IF ss = <<>> THEN <<>> ELSE Head(ss) \o Flatten(Tail(ss))

InitMasked ==
    /\ \E m \in MaskVals, ps \in SeqsUpTo(PairChunks, MaxPairs) :
           buf = <<m>> \o Flatten(ps)
    /\ pre = buf
    /\ op = [name |-> "new", n |-> 0]
    /\ res = [tag |-> "None", val |-> 0]

NextMasked ==
    \/ GetMaskedData
    \/ GetSmart32
    \/ GetDecrSmart

\* bit k of a byte
Bit(m, k) == (m \div (2 ^ k)) % 2

HighestBit(m) == CHOOSE k \in 0 .. 7 : Bit(m, k) = 1 /\ \A l \in (k + 1) .. 7 : Bit(m, l) = 0

\* the bytes that remain when position k of mask m is reached, b being the
\* bytes after the mask byte
RECURSIVE CursorAt(_, _, _)
CursorAt(m, b, k) ==
    IF k = 0 THEN b
    ELSE LET c == CursorAt(m, b, k - 1)
         IN  IF Bit(m, k - 1) = 1 THEN get_decr_smart(get_smart32(c).buf).buf ELSE c

\* C11: get_masked_data returns a list as long as the index of the highest
\* set bit of the mask byte plus one (empty for mask 0, only the mask byte
\* consumed); position k holds (absent, absent) and consumes nothing when
\* bit k is clear, and holds the (smart32, decr_smart) pair decoded at the
\* cursor, positions taken in ascending order, when bit k is set.
C11_MaskedDataFollowsMaskBits ==
    (op.name = "get_masked_data" /\ res.tag = "Ok") =>
        LET m == pre[1]
            b == Drop(pre, 1)
            n == IF m = 0 THEN 0 ELSE HighestBit(m) + 1
        IN  /\ Len(res.val) = n
            /\ m = 0 => (res.val = <<>> /\ buf = b)
            /\ buf = CursorAt(m, b, n)
            /\ \A k \in 0 .. (n - 1) :
                  LET c == CursorAt(m, b, k)
                  IN  IF Bit(m, k) = 0
                      THEN /\ res.val[k + 1] = <<<<>>, <<>>>>
                           /\ CursorAt(m, b, k + 1) = c
                      ELSE LET a == get_smart32(c)
                               d == get_decr_smart(a.buf)
                           IN  /\ a.tag = "Ok" /\ d.tag = "Ok"
                               /\ res.val[k + 1] = <<a.val, MapAsU32(d.val)>>

\* mask 0b101: three entries, the middle one absent, both outer ones read
C11_Witness ==
    /\ op.name = "get_masked_data" /\ res.tag = "Ok"
    /\ pre[1] = 5
    /\ Len(res.val) = 3
    /\ res.val[2] = <<<<>>, <<>>>>
    /\ res.val[1] = << <<<<0, 1>>>>, <<<<0, 4>>>> >>
    /\ res.val[3] = << <<<<0, 5>>>>, <<<<0, 32766>>>> >>
    /\ buf = <<>>

\* C12: try_get_string returns the bytes before the first terminator, one
\* character per byte, and advances past the terminator; with no terminator
\* among the remaining bytes it returns NotNulTerminated.
C12_StringUpToFirstTerminator ==
    (op.name = "try_get_string") =>
        LET nuls == {k \in 1 .. Len(pre) : pre[k] = 0}
        IN  IF nuls = {}
            THEN res.tag = "NotNulTerminated"
            ELSE \E k \in nuls :
                    /\ \A l \in nuls : k <= l
                    /\ res.tag = "Ok"
                    /\ Len(res.val) = k - 1
                    /\ \A i \in 1 .. (k - 1) : res.val[i] = pre[i]
                    /\ Len(buf) = Len(pre) - k
                    /\ \A i \in 1 .. Len(buf) : buf[i] = pre[k + i]

\* a two-character string read from a buffer that goes on after the terminator
C12_Witness ==
    /\ op.name = "try_get_string" /\ res.tag = "Ok"
    /\ Len(res.val) = 2
    /\ Len(pre) = 4
    /\ buf # <<>>

----------------------------------------------------------------------------
(* decompress (SpecDec) *)

MaxDecTail == 5    \* most bytes that follow the five header bytes

\* Compression tokens
NONE == 0
BZIP == 1
GZIP == 2
ZLIB == <<90, 76, 66>>
DAT_GZIP == <<31, 139, 8>>

Builds == {"rs3", "dat2", "dat"}

DecOk(bytes)  == [tag |-> "Ok", err |-> "", val |-> bytes]
DecErr(e)     == [tag |-> "Err", err |-> e, val |-> <<>>]
DecPanic      == [tag |-> "Panic", err |-> "", val |-> <<>>]

\* What zlib, gzip or bzip2 make of the bytes they are given: the decoder
\* cannot be built, reading fails, or reading yields `out`
LibOutputs == {<<>>, <<65>>, <<65, 66>>}
LibOutcomes == {[new |-> n, read |-> r, out |-> o] :
                   n \in {"Ok", "Err"}, r \in {"Ok", "Err"}, o \in LibOutputs}

\* u32::from_be_bytes(..) as usize, saturated at 65536 (more than any input holds)
from_be_bytes(b1, b2, b3, b4) == IF b1 = 0 /\ b2 = 0 THEN b3 * 256 + b4 ELSE U16

\* Decoder::new(..)? followed by read_to_end(..)?
decode_stream(lib) ==
    IF lib.new = "Err" \/ lib.read = "Err" THEN DecErr("IoError") ELSE DecOk(lib.out)

\* the NONE arm: encoded_data[5..(encoded_data.len() - 2)]
decompress_none(encoded_data) ==
    IF 5 > Len(encoded_data) - 2 THEN DecPanic
    ELSE DecOk(SubSeq(encoded_data, 6, Len(encoded_data) - 2))

\* Mutant of is_empty_file: the threshold is two bytes
is_empty_file_below_two(encoded_data) == Len(encoded_data) < 2

is_empty_file(encoded_data) == Len(encoded_data) < 3

decompress(build, encoded_data, filesize, xtea, lib) ==
    IF is_empty_file(encoded_data) THEN DecErr("File was empty")
    ELSE IF Len(encoded_data) < 3 THEN DecPanic    \* &encoded_data[0..3]
    ELSE LET head == SubSeq(encoded_data, 1, 3)
         IN  IF head = ZLIB
             THEN IF Len(encoded_data) < 8 THEN DecPanic ELSE decode_stream(lib)
             ELSE IF head[1] = NONE
             THEN decompress_none(encoded_data)
             ELSE IF head[1] = BZIP
             THEN IF Len(encoded_data) < 9 THEN DecPanic
                  ELSE IF lib.read = "Err" THEN DecErr("IoError") ELSE DecOk(lib.out)
             ELSE IF build = "dat2" /\ head[1] = GZIP /\ xtea # <<>>
             THEN IF Len(encoded_data) < 5 THEN DecPanic
                  ELSE LET length == from_be_bytes(encoded_data[2], encoded_data[3],
                                                   encoded_data[4], encoded_data[5])
                       IN  IF length + 9 > Len(encoded_data) THEN DecPanic
                           ELSE IF lib.new = "Err" THEN DecErr("XteaError")
                           ELSE IF lib.read = "Err" THEN DecPanic
                           ELSE DecOk(lib.out)
             ELSE IF head[1] = GZIP
             THEN IF Len(encoded_data) < 9 THEN DecPanic ELSE decode_stream(lib)
             ELSE IF build = "dat" /\ head = DAT_GZIP
             THEN IF lib.new = "Err" \/ lib.read = "Err" THEN DecPanic
                  ELSE DecOk(lib.out)
             ELSE DecPanic

TailBytes == {65, 66, 170}

DecHeaders ==
    {<<NONE, 0, 0, 0, n>> : n \in 0 .. MaxDecTail}
        \cup {<<BZIP, 0, 0, 0, 1>>, <<GZIP, 0, 0, 0, 1>>, ZLIB \o <<0, 0>>,
              DAT_GZIP \o <<0, 0>>, <<7, 0, 0, 0, 0>>, <<NONE, 0, 1, 0, 0>>}

\* every header followed by up to MaxDecTail bytes, and every cut-off header
DecInputs ==
    {h \o t : h \in DecHeaders, t \in SeqsUpTo(TailBytes, MaxDecTail)}
        \cup {SubSeq(h, 1, k) : h \in DecHeaders, k \in 0 .. 4}

FileSizes == {<<>>, <<<<0, 3>>>>}
Keys(build) == IF build = "dat2" THEN {<<>>, <<"key">>} ELSE {<<>>}

InitDec ==
    /\ dec_build \in Builds
    /\ dec_in \in DecInputs
    /\ dec_size = <<>>
    /\ dec_key = <<>>
    /\ dec_out = [tag |-> "None", err |-> "", val |-> <<>>]

Decompress ==
    /\ dec_out.tag = "None"
    /\ \E filesize \in FileSizes, xtea \in Keys(dec_build), lib \in LibOutcomes :
          /\ dec_size' = filesize
          /\ dec_key' = xtea
          /\ dec_out' = decompress(dec_build, dec_in, filesize, xtea, lib)
    /\ UNCHANGED <<dec_build, dec_in>>
    /\ UNCHANGED <<idx_vars, buf_vars, sm_vars, cat_vars, grp_vars, more_vars>>

NextDec == Decompress

\* the length field of a NONE envelope
LengthField(e) == from_be_bytes(e[2], e[3], e[4], e[5])

\* C13: for an input whose first byte is 0x00 and whose bytes 1..5 hold the
\* big-endian length len, decompress returns exactly the len bytes at
\* positions [5, len + 5) of the input, whatever follows them.
C13_NoneReturnsLengthFieldBytes ==
    (/\ dec_out.tag # "None"
     /\ Len(dec_in) >= 5
     /\ dec_in[1] = NONE
     /\ LengthField(dec_in) + 7 <= Len(dec_in)) =>
        dec_out = DecOk(SubSeq(dec_in, 6, LengthField(dec_in) + 5))

\* The part of C13 that holds: a payload wrapped as 0x00, its length, the
\* payload and exactly two trailing bytes comes back as it went in.
C13_FramedNoneReturnsPayload ==
    (/\ dec_out.tag # "None"
     /\ Len(dec_in) >= 5
     /\ dec_in[1] = NONE
     /\ LengthField(dec_in) + 7 = Len(dec_in)) =>
        dec_out = DecOk(SubSeq(dec_in, 6, LengthField(dec_in) + 5))

\* C14: decompress returns Err(Other("File was empty")) for every input of
\* length 0, 1 or 2, whatever its bytes, the expected size and the key, and
\* for no input of three or more bytes.
C14_EmptyFileIffShorterThanThree ==
    (dec_out.tag # "None") =>
        ((dec_out.tag = "Err" /\ dec_out.err = "File was empty")
            <=> Len(dec_in) \in {0, 1, 2})

\* two bytes that begin like a gzip envelope, given with a key and a size
C14_Witness ==
    /\ dec_in = <<GZIP, 0>>
    /\ dec_build = "dat2"
    /\ dec_key # <<>>
    /\ dec_size # <<>>
    /\ dec_out = DecErr("File was empty")

\* the envelope the first bytes select is cut off before its header ends, or
\* the first bytes select no envelope at all
MalformedEnvelope(e) ==
    \/ SubSeq(e, 1, 3) = ZLIB /\ Len(e) < 8
    \/ e[1] = NONE /\ Len(e) < 7
    \/ e[1] \in {BZIP, GZIP} /\ Len(e) < 9
    \/ e[1] \notin {NONE, BZIP, GZIP} /\ SubSeq(e, 1, 3) \notin {ZLIB, DAT_GZIP}

\* C21: for every input of three or more bytes decompress returns a payload
\* or a DecodeError and never aborts; an input that matches no envelope, or
\* is shorter than the header of the envelope its first byte selects, is
\* reported as an error.
C21_DecompressNeverAborts ==
    (dec_out.tag # "None" /\ Len(dec_in) >= 3) =>
        /\ dec_out.tag \in {"Ok", "Err"}
        /\ MalformedEnvelope(dec_in) => dec_out.tag = "Err"

\* What the code does with such inputs: every one of them aborts the call,
\* in every build and whatever the decompression library would answer.
C21_MalformedEnvelopeAborts ==
    (dec_out.tag # "None" /\ Len(dec_in) >= 3 /\ MalformedEnvelope(dec_in)) =>
        dec_out = DecPanic

----------------------------------------------------------------------------
(* IndexMetadata::deserialize (SpecMeta) *)

MaxEntries == 2    \* most entries of a serialised catalog

\* Buffer<Vec<u8>>: the unchecked big-endian reads of section 4.1
read_byte(b)           == get_i8(b)
read_int(b)            == get_i32(b)
read_unsigned_short(b) == get_u16(b)
read_unsigned_int(b)   == get_u32(b)
read_smart32(b)        == get_smart32(b)

read_n_bytes(b, n) ==
    IF Len(b) < n THEN Rd("Panic", 0, b) ELSE Rd("Ok", SubSeq(b, 1, n), Drop(b, n))

\* one byte as eight booleans, least significant bit first
read_bitflags(b) ==
    LET r == get_u8(b)
    IN  IF r.tag # "Ok" THEN r
        ELSE Rd("Ok", [k \in 1 .. 8 |-> Bit(r.val, k - 1) = 1], r.buf)

\* `x as usize` for a u32 below 2^31
AsUsize(x) == x[1] * U16 + x[2]

\* if format >= 7 { read_smart32().unwrap() } else { read_unsigned_short() as u32 }
read_id(format, b) ==
    IF format >= 7
    THEN LET r == read_smart32(b)
         IN  IF r.tag # "Ok" THEN r
             ELSE IF r.val = <<>> THEN Rd("Panic", 0, r.buf)
             ELSE Rd("Ok", r.val[1], r.buf)
    ELSE LET r == read_unsigned_short(b)
         IN  IF r.tag # "Ok" THEN r ELSE Rd("Ok", AsU32(r.val), r.buf)

\* the closure handed to iter::repeat_with, by the column it fills
read_item(kind, format, b) ==
    CASE kind = "id"     -> read_id(format, b)
      [] kind = "int"    -> read_int(b)
      [] kind = "some"   -> LET r == read_int(b)
                            IN  IF r.tag # "Ok" THEN r ELSE Rd("Ok", <<r.val>>, r.buf)
      [] kind = "digest" -> LET r == read_n_bytes(b, 64)
                            IN  IF r.tag # "Ok" THEN r ELSE Rd("Ok", <<r.val>>, r.buf)
      [] kind = "sizes"  -> LET r1 == read_unsigned_int(b)
                            IN  IF r1.tag # "Ok" THEN r1
                                ELSE LET r2 == read_unsigned_int(r1.buf)
                                     IN  IF r2.tag # "Ok" THEN r2
                                         ELSE Rd("Ok", <<<<r1.val>>, <<r2.val>>>>, r2.buf)

\* iter::repeat_with(..).take(n).collect()
RECURSIVE take_collect(_, _, _, _, _)
take_collect(kind, format, b, n, acc) ==
    IF n = 0 THEN Rd("Ok", acc, b)
    ELSE CHOOSE out \in
             {IF r.tag # "Ok" THEN Rd("Panic", 0, r.buf)
              ELSE take_collect(kind, format, r.buf, n - 1, Append(acc, r.val)) :
                  r \in {read_item(kind, format, b)}} : TRUE

\* vec![None; entry_count]
vec_none(n) == [k \in 1 .. n |-> <<>>]

\* Add::add on u32: with overflow checks a sum above u32::MAX panics (<<>>),
\* without them it wraps
add(x, y, checks) ==
    LET lo == x[2] + y[2]
        hi == x[1] + y[1] + (lo \div U16)
    IN  IF hi >= U16 /\ checks THEN <<>> ELSE << <<hi % U16, lo % U16>> >>

\* Mutant of accumulate: the elements are passed through unsummed
accumulate_identity(xs, checks) == Rd("Ok", xs, <<>>)

\* Accumulator::accumulate(Add::add): the running sums of xs
RECURSIVE accumulate_from(_, _, _, _)
accumulate_from(xs, k, out, checks) ==
    IF k > Len(xs) THEN Rd("Ok", out, <<>>)
    ELSE IF k = 1 THEN accumulate_from(xs, 2, <<xs[1]>>, checks)
    ELSE CHOOSE res_ \in
             {IF sum = <<>> THEN Rd("Panic", 0, <<>>)
              ELSE accumulate_from(xs, k + 1, Append(out, sum[1]), checks) :
                  sum \in {add(out[k - 1], xs[k], checks)}} : TRUE

accumulate(xs, checks) == accumulate_from(xs, 1, <<>>, checks)

\* one child list: take(count) ids, then accumulate(Add::add)
read_child_list(format, b, count, checks) ==
    CHOOSE out \in
        {IF r.tag # "Ok" THEN Rd("Panic", 0, r.buf)
         ELSE CHOOSE summed \in
                  {IF sums.tag # "Ok" THEN Rd("Panic", 0, r.buf)
                   ELSE Rd("Ok", sums.val, r.buf) :
                       sums \in {accumulate(r.val, checks)}} : TRUE :
             r \in {take_collect("id", format, b, count, <<>>)}} : TRUE

\* child_counts.iter().map(|count| ..).collect()
RECURSIVE read_children(_, _, _, _, _, _)
read_children(format, b, child_counts, k, acc, checks) ==
    IF k > Len(child_counts) THEN Rd("Ok", acc, b)
    ELSE CHOOSE out \in
             {IF r.tag # "Ok" THEN Rd("Panic", 0, r.buf)
              ELSE read_children(format, r.buf, child_counts, k + 1,
                                 Append(acc, r.val), checks) :
                  r \in {read_child_list(format, b, AsUsize(child_counts[k]), checks)}} : TRUE

\* Mutant of has_timestamp: no format carries a timestamp
has_timestamp_never(format) == FALSE

has_timestamp(format) == format > 5

\* Mutant of flag_bits: the flags are taken from the high end of the byte
flag_bits_high(flags) == [named |-> flags[8], hashed |-> flags[7], unk4 |-> flags[6]]

\* let [named, hashed, unk4, ..] = buffer.read_bitflags()
flag_bits(flags) == [named |-> flags[1], hashed |-> flags[2], unk4 |-> flags[3]]

\* Mutant of last_with: every key gets the first entry
first_entry(archive_ids, id) == 1

\* collect::<BTreeMap<_, _>>(): of the entries with one id the last is kept
last_with(archive_ids, id) ==
    CHOOSE k \in 1 .. Len(archive_ids) :
        archive_ids[k] = id /\ \A l \in (k + 1) .. Len(archive_ids) : archive_ids[l] # id

NotParsed == [tag |-> "None", metadatas |-> <<>>, archive_ids |-> <<>>, child_indices |-> <<>>]
ParsePanic == [tag |-> "Panic", metadatas |-> <<>>, archive_ids |-> <<>>, child_indices |-> <<>>]

\* The locals of deserialize before anything is read
Locals(buffer) ==
    [tag |-> "Ok", buf |-> buffer, format |-> 0,
     flags |-> [named |-> FALSE, hashed |-> FALSE, unk4 |-> FALSE],
     entry_count |-> 0, archive_ids |-> <<>>, names |-> <<>>, crcs |-> <<>>,
     unknowns |-> <<>>, digests |-> <<>>, sizes |-> <<>>, versions |-> <<>>,
     child_counts |-> <<>>, child_indices |-> <<>>]

\* a read that fills one local: the value is stored and the cursor moves on,
\* or the parse panics
Store(st, local, r) ==
    IF r.tag # "Ok" THEN [st EXCEPT !.tag = "Panic"]
    ELSE [st EXCEPT ![local] = r.val, !.buf = r.buf]

\* Section k of deserialize, in the order of the source
section(k, st, checks) ==
    LET n == st.entry_count
        column(kind) == take_collect(kind, st.format, st.buf, n, <<>>)
    IN  CASE k = 1  -> Store(st, "format", read_byte(st.buf))
          [] k = 2  -> IF has_timestamp(st.format)
                       THEN IF read_int(st.buf).tag # "Ok" THEN [st EXCEPT !.tag = "Panic"]
                            ELSE [st EXCEPT !.buf = read_int(st.buf).buf]
                       ELSE st
          [] k = 3  -> Store(st, "flags",
                           Rd(read_bitflags(st.buf).tag,
                              IF read_bitflags(st.buf).tag = "Ok"
                              THEN flag_bits(read_bitflags(st.buf).val) ELSE st.flags,
                              read_bitflags(st.buf).buf))
          [] k = 4  -> Store(st, "entry_count",
                           Rd(read_id(st.format, st.buf).tag,
                              IF read_id(st.format, st.buf).tag = "Ok"
                              THEN AsUsize(read_id(st.format, st.buf).val) ELSE 0,
                              read_id(st.format, st.buf).buf))
          [] k = 5  -> CHOOSE out \in
                           {IF r.tag # "Ok" THEN [st EXCEPT !.tag = "Panic"]
                            ELSE Store(st, "archive_ids",
                                     Rd(accumulate(r.val, checks).tag,
                                        accumulate(r.val, checks).val, r.buf)) :
                                r \in {column("id")}} : TRUE
          [] k = 6  -> IF st.flags.named THEN Store(st, "names", column("some"))
                       ELSE [st EXCEPT !.names = vec_none(n)]
          [] k = 7  -> Store(st, "crcs", column("int"))
          [] k = 8  -> IF st.flags.unk4 THEN Store(st, "unknowns", column("some"))
                       ELSE [st EXCEPT !.unknowns = vec_none(n)]
          [] k = 9  -> IF st.flags.hashed THEN Store(st, "digests", column("digest"))
                       ELSE [st EXCEPT !.digests = vec_none(n)]
          [] k = 10 -> IF st.flags.unk4 THEN Store(st, "sizes", column("sizes"))
                       ELSE [st EXCEPT !.sizes = [i \in 1 .. n |-> <<<<>>, <<>>>>]]
          [] k = 11 -> Store(st, "versions", column("int"))
          [] k = 12 -> Store(st, "child_counts", column("id"))
          [] k = 13 -> Store(st, "child_indices",
                           read_children(st.format, st.buf, st.child_counts, 1, <<>>, checks))

\* the sections one after the other, until one panics
RECURSIVE sections_from(_, _, _)
sections_from(k, st, checks) ==
    IF st.tag # "Ok" \/ k > 13 THEN st
    ELSE CHOOSE out \in {sections_from(k + 1, st2, checks) :
                            st2 \in {section(k, st, checks)}} : TRUE

deserialize(index, buffer, checks) ==
    CHOOSE out \in
        {IF st.tag # "Ok" THEN ParsePanic
         ELSE LET entry(k) == [index_id        |-> index,
                               archive_id      |-> st.archive_ids[k],
                               name            |-> st.names[k],
                               crc             |-> st.crcs[k],
                               version         |-> st.versions[k],
                               unknown         |-> st.unknowns[k],
                               compressed_size |-> st.sizes[k][1],
                               size            |-> st.sizes[k][2],
                               digest          |-> st.digests[k],
                               child_count     |-> st.child_counts[k],
                               child_indices   |-> st.child_indices[k]]
              IN  [tag |-> "Ok",
                   metadatas |-> [id \in {st.archive_ids[k] : k \in 1 .. st.entry_count} |->
                                     entry(last_with(st.archive_ids, id))],
                   archive_ids |-> st.archive_ids,
                   child_indices |-> st.child_indices] :
             st \in {sections_from(1, Locals(buffer), checks)}} : TRUE

\* The wire form of a catalog, section by section.  A catalog is
\* [format, flags, entries], an entry [delta, children]; the other columns
\* are fixed by the position k of the entry.
Big == 2147483647    \* the largest value a smart32 carries

Formats  == {5, 6, 7}
FlagVals == {0, 1, 2, 7, 249}

Deltas(format) == IF format >= 7 THEN {0, 5, Big} ELSE {0, 1, 5}
ChildDeltas(format) ==
    IF format >= 7 THEN {<<>>, <<0, 2>>, <<Big, Big, 5>>}
    ELSE {<<>>, <<0>>, <<0, 2>>, <<3, 0>>}
Entries(format) ==
    {[delta |-> d, children |-> ch] : d \in Deltas(format), ch \in ChildDeltas(format)}

Catalogs ==
    UNION {{[kind |-> "catalog", format |-> f, flags |-> fl, entries |-> es] :
               fl \in FlagVals, es \in SeqsUpTo(Entries(f), MaxEntries)} : f \in Formats}

NameOf(k)       == 0 - k
CrcOf(k)        == 256 * k + 17
UnknownOf(k)    == 3 * k
DigestOf(k)     == [i \in 1 .. 64 |-> 170 + k]
CompressedOf(k) == <<k, 1>>
SizeOf(k)       == <<0, 2 * k>>
VersionOf(k)    == 6 + k
Timestamp       == <<96, 0, 0, 9>>

EncInt(v) == <<ByteOf(v, 1, 4), ByteOf(v, 2, 4), ByteOf(v, 3, 4), ByteOf(v, 4, 4)>>
EncU16(v) == <<v \div 256, v % 256>>
EncU32(x) == EncU16(x[1]) \o EncU16(x[2])
EncSmart32(v) ==
    IF v < 32767 THEN EncU16(v)
    ELSE <<128 + (v \div 16777216), (v \div 65536) % 256, (v \div 256) % 256, v % 256>>
EncId(format, v) == IF format >= 7 THEN EncSmart32(v) ELSE EncU16(v)

EncodeCatalog(c) ==
    LET n == Len(c.entries)
        column(f(_)) == Flatten([k \in 1 .. n |-> f(k)])
        when(bit, bytes) == IF Bit(c.flags, bit) = 1 THEN bytes ELSE <<>>
        delta(k)    == EncId(c.format, c.entries[k].delta)
        name(k)     == EncInt(NameOf(k))
        crc(k)      == EncInt(CrcOf(k))
        unknown(k)  == EncInt(UnknownOf(k))
        sizes(k)    == EncU32(CompressedOf(k)) \o EncU32(SizeOf(k))
        version(k)  == EncInt(VersionOf(k))
        count(k)    == EncId(c.format, Len(c.entries[k].children))
        children(k) == Flatten([i \in 1 .. Len(c.entries[k].children) |->
                                   EncId(c.format, c.entries[k].children[i])])
    IN  <<c.format>>
            \o (IF c.format > 5 THEN Timestamp ELSE <<>>)
            \o <<c.flags>>
            \o EncId(c.format, n)
            \o column(delta)
            \o when(0, column(name))
            \o column(crc)
            \o when(2, column(unknown))
            \o when(1, column(DigestOf))
            \o when(2, column(sizes))
            \o column(version)
            \o column(count)
            \o column(children)

\* blobs that were not serialised from a catalog: format 6 followed at once
\* by flags, a one-byte count and a one-byte delta
I32Samples == {0, 1, 7, 0 - 1}
RawBlobs ==
    {<<6, 0, 0, 5>> \o EncInt(crc) \o EncInt(version) \o <<0, 1>> \o <<0, 0>> :
        crc \in I32Samples, version \in I32Samples}

InitCat ==
    /\ cat_index \in IndexIds
    /\ cat_checks \in BOOLEAN
    /\ \/ cat_src \in Catalogs /\ cat_in = EncodeCatalog(cat_src)
       \/ cat_src = [kind |-> "raw"] /\ cat_in \in RawBlobs
    /\ cat_out = NotParsed

Deserialize ==
    /\ cat_out.tag = "None"
    /\ cat_out' = deserialize(cat_index, cat_in, cat_checks)
    /\ UNCHANGED <<cat_index, cat_checks, cat_src, cat_in>>
    /\ UNCHANGED <<idx_vars, buf_vars, sm_vars, dec_vars, grp_vars, more_vars>>

NextCat == Deserialize

\* a u32 kept as an integer below 2^31 in limbs
ToLimbs(v) == <<v \div U16, v % U16>>

\* the sum of the first k deltas as <<hi, lo>>; hi reaches 65536 when the
\* sum does not fit in a u32
PrefixSum(deltas, k) ==
    LET lo == SumSeq([i \in 1 .. k |-> deltas[i] % U16])
        hi == SumSeq([i \in 1 .. k |-> deltas[i] \div U16]) + (lo \div U16)
    IN  <<hi, lo % U16>>

SumsFit(deltas) == \A k \in 1 .. Len(deltas) : PrefixSum(deltas, k)[1] < U16

NonZeroAfterFirst(deltas) == \A k \in 2 .. Len(deltas) : deltas[k] # 0

IsRunningSum(ids, deltas) ==
    /\ Len(ids) = Len(deltas)
    /\ \A k \in 1 .. Len(ids) : ids[k] = PrefixSum(deltas, k)

LimbLess(x, y) == x[1] < y[1] \/ (x[1] = y[1] /\ x[2] < y[2])

StrictlyIncreasing(ids) == \A k \in 1 .. (Len(ids) - 1) : LimbLess(ids[k], ids[k + 1])

\* x - y on limbs, for y <= x
LimbMinus(x, y) ==
    LET borrow == IF x[2] < y[2] THEN 1 ELSE 0
    IN  <<x[1] - y[1] - borrow, x[2] - y[2] + borrow * U16>>

\* ids[k] - ids[k - 1], the first of them taken from zero
FirstDifferences(ids) ==
    [k \in 1 .. Len(ids) |->
        IF k = 1 THEN ids[1] ELSE LimbMinus(ids[k], ids[k - 1])]

\* what C15 says of one parsed id list and the deltas it was read from
PrefixSummedStrictly(ids, deltas) ==
    /\ IsRunningSum(ids, deltas)
    /\ StrictlyIncreasing(ids)
    /\ FirstDifferences(ids) = [k \in 1 .. Len(deltas) |-> ToLimbs(deltas[k])]

ArchiveDeltas(c) == [k \in 1 .. Len(c.entries) |-> c.entries[k].delta]

\* C15 as stated: the archive ids produced by catalog parsing, and each
\* entry's child ids, are the running sums of the wire deltas in wire order,
\* strictly increasing and within u32, so that first differences give back
\* the deltas.
C15_IdsStrictlyIncreasingWithinU32 ==
    (cat_out.tag = "Ok" /\ cat_src.kind = "catalog") =>
        /\ PrefixSummedStrictly(cat_out.archive_ids, ArchiveDeltas(cat_src))
        /\ \A k \in 1 .. Len(cat_src.entries) :
              PrefixSummedStrictly(cat_out.child_indices[k], cat_src.entries[k].children)

\* C15 amended: an id list whose deltas after the first are all non-zero and
\* whose running sums all fit in u32 is parsed into the running sums of its
\* deltas in wire order, strictly increasing, and first differences give back
\* the deltas; with such archive ids every entry is kept under its id.
C15_IdsOfAdvancingDeltas ==
    (cat_out.tag = "Ok" /\ cat_src.kind = "catalog") =>
        LET deltas == ArchiveDeltas(cat_src)
            advancing(ds) == NonZeroAfterFirst(ds) /\ SumsFit(ds)
        IN  /\ advancing(deltas) =>
                /\ PrefixSummedStrictly(cat_out.archive_ids, deltas)
                /\ DOMAIN cat_out.metadatas = Range(cat_out.archive_ids)
                /\ \A k \in 1 .. Len(deltas) :
                      cat_out.metadatas[PrefixSum(deltas, k)].child_indices
                          = cat_out.child_indices[k]
            /\ \A k \in 1 .. Len(deltas) :
                  advancing(cat_src.entries[k].children) =>
                      PrefixSummedStrictly(cat_out.child_indices[k],
                                           cat_src.entries[k].children)

\* two entries five and one apart, the second with children 0 and 2
C15_Witness ==
    /\ cat_out.tag = "Ok" /\ cat_src.kind = "catalog"
    /\ ArchiveDeltas(cat_src) = <<5, 1>>
    /\ cat_src.entries[2].children = <<0, 2>>
    /\ cat_out.archive_ids = <<<<0, 5>>, <<0, 6>>>>
    /\ cat_out.metadatas[<<0, 6>>].child_indices = <<<<0, 0>>, <<0, 2>>>>

\* the flag byte of a catalog blob
FlagByte(b) == IF b[1] > 5 THEN b[6] ELSE b[2]
WithFlagByte(b, v) == [b EXCEPT ![IF b[1] > 5 THEN 6 ELSE 2] = v]

\* C16: after catalog parsing, in every entry alike, name is present iff bit
\* 0 of the flag byte is set, the 64-byte digest iff bit 1, and unknown,
\* compressed_size and size together iff bit 2; bits 3 to 7 change nothing.
C16_OptionalFieldsFollowFlags ==
    (cat_out.tag = "Ok") =>
        LET fl == FlagByte(cat_in)
        IN  /\ \A id \in DOMAIN cat_out.metadatas :
                  LET m == cat_out.metadatas[id]
                  IN  /\ (m.name # <<>>) <=> (Bit(fl, 0) = 1)
                      /\ (m.digest # <<>>) <=> (Bit(fl, 1) = 1)
                      /\ m.digest # <<>> => Len(m.digest[1]) = 64
                      /\ (m.unknown # <<>>) <=> (Bit(fl, 2) = 1)
                      /\ (m.compressed_size # <<>>) <=> (Bit(fl, 2) = 1)
                      /\ (m.size # <<>>) <=> (Bit(fl, 2) = 1)
            /\ deserialize(cat_index, WithFlagByte(cat_in, fl % 8), cat_checks) = cat_out

\* a named catalog of two entries whose flag byte also has bits 3 to 7 set
C16_Witness ==
    /\ cat_out.tag = "Ok"
    /\ FlagByte(cat_in) = 249
    /\ Cardinality(DOMAIN cat_out.metadatas) = 2
    /\ \A id \in DOMAIN cat_out.metadatas :
          cat_out.metadatas[id].name # <<>> /\ cat_out.metadatas[id].digest = <<>>

\* C17: every Metadata of a parsed IndexMetadata has as many child_indices
\* as its child_count says, is stored under its own archive_id, and carries
\* the index id the parser was given.
C17_MetadataWellFormed ==
    (cat_out.tag = "Ok") =>
        \A id \in DOMAIN cat_out.metadatas :
            LET m == cat_out.metadatas[id]
            IN  /\ Len(m.child_indices) = AsUsize(m.child_count)
                /\ m.archive_id = id
                /\ m.index_id = cat_index

\* two entries with different ids and different numbers of children
C17_Witness ==
    /\ cat_out.tag = "Ok"
    /\ cat_index = 5
    /\ DOMAIN cat_out.metadatas = {<<0, 1>>, <<0, 6>>}
    /\ Len(cat_out.metadatas[<<0, 1>>].child_indices) = 2
    /\ Len(cat_out.metadatas[<<0, 6>>].child_indices) = 0

OnlyKeyFiveWithChildZero ==
    /\ cat_out.tag = "Ok"
    /\ DOMAIN cat_out.metadatas = {<<0, 5>>}
    /\ cat_out.metadatas[<<0, 5>>].child_indices = <<<<0, 0>>>>

\* C18 as stated: the blob 0x06, 0x00, 0x00, 0x05, crc, version, child_count
\* u16 = 1, child-id delta u16 = 0 parses into an IndexMetadata whose only
\* key is 5 and whose entry has child_indices == [0].
C18_ShortBlobYieldsKeyFive ==
    (/\ cat_out.tag # "None"
     /\ Len(cat_in) = 16
     /\ SubSeq(cat_in, 1, 4) = <<6, 0, 0, 5>>
     /\ SubSeq(cat_in, 13, 16) = <<0, 1, 0, 0>>) =>
        OnlyKeyFiveWithChildZero

\* C18 amended: the blob 0x06, a four-byte timestamp, flags 0x00, count u16
\* = 1, archive-id delta u16 = 5, crc, version, child_count u16 = 1, child-id
\* delta u16 = 0 parses into an IndexMetadata whose only key is 5 and whose
\* entry has child_indices == [0].
C18_TimestampedBlobYieldsKeyFive ==
    (/\ cat_out.tag # "None"
     /\ Len(cat_in) = 22
     /\ cat_in[1] = 6
     /\ SubSeq(cat_in, 6, 10) = <<0, 0, 1, 0, 5>>
     /\ SubSeq(cat_in, 19, 22) = <<0, 1, 0, 0>>) =>
        OnlyKeyFiveWithChildZero

C18_Witness ==
    /\ Len(cat_in) = 22
    /\ cat_in[1] = 6
    /\ SubSeq(cat_in, 6, 10) = <<0, 0, 1, 0, 5>>
    /\ SubSeq(cat_in, 19, 22) = <<0, 1, 0, 0>>
    /\ OnlyKeyFiveWithChildZero

----------------------------------------------------------------------------
(* GroupMapSquareIterator (SpecGroup) *)

MaxCoords == 2    \* longest coordinate list handed to new_only

\* x >> 7 and the truncating cast `as u8`
Shr7(x) == x \div 128
AsU8(x) == x % 256

\* the grid is 128 squares wide and high
GridMax == 127

\* (i as u32) | (j as u32) << 7
coordinate_id(i, j) == BitOr(i, j * 128)

\* Mutant of clamp_range: the upper end of the grid is not looked at
clamp_range_open(c, d) ==
    {x \in (c + d[1]) .. (c + d[2]) : 0 <= x}

\* the coordinates c + d for d in the range, clamped to the grid
clamp_range(c, d) ==
    {x \in (c + d[1]) .. (c + d[2]) : 0 <= x /\ x <= GridMax}

\* IntoIterGrouped::next: the ids of the squares around core_id, within the
\* ranges, that are keys of metadatas
group_ids(core_id, dx, dy, all_ids) ==
    LET i == BitAnd(core_id, 127)
        j == Shr7(core_id)
    IN  {id \in {coordinate_id(i2, j2) : i2 \in clamp_range(i, dx), j2 \in clamp_range(j, dy)} :
            id \in all_ids}

\* MapSquare::from_archive: the coordinates a square takes from its archive id
from_archive(id) == [i |-> BitAnd(id, 127), j |-> Shr7(id)]

NoGroup == [tag |-> "None", core_id |-> 0, core_i |-> 0, core_j |-> 0, mapsquares |-> {}]

\* the squares the MAPSV2 index holds: the corners of the grid and their
\* neighbours, at most one of them missing
GridCoords == {0, 1, GridMax}
AllSquares == {coordinate_id(i, j) : i \in GridCoords, j \in GridCoords}
KeySets == {AllSquares} \cup {AllSquares \ {id} : id \in AllSquares}

RangeVals == {<<-1, 1>>, <<0, 0>>, <<-2, -1>>}
CoordVals == {0, 1, 128}

InitGrp ==
    /\ grp_keys \in KeySets
    /\ grp_pc = "new"
    /\ grp_coords = <<>>
    /\ grp_dx = <<0, 0>>
    /\ grp_dy = <<0, 0>>
    /\ grp_feed = <<>>
    /\ grp_count = 0
    /\ grp_last = NoGroup

GrpFrame == UNCHANGED <<idx_vars, buf_vars, sm_vars, dec_vars, cat_vars, more_vars>>

\* GroupMapSquareIterator::new
New ==
    /\ grp_pc = "new"
    /\ \E dx \in RangeVals, dy \in RangeVals :
          /\ grp_dx' = dx
          /\ grp_dy' = dy
    /\ grp_pc' = "iter"
    /\ grp_feed' = KeysOf(grp_keys)
    /\ UNCHANGED <<grp_keys, grp_coords, grp_count, grp_last>>
    /\ GrpFrame

\* GroupMapSquareIterator::new_only
NewOnly ==
    /\ grp_pc = "new"
    /\ \E dx \in RangeVals, dy \in RangeVals,
          coordinates \in SeqsUpTo(CoordVals \X CoordVals, MaxCoords) :
          LET archive_ids == [k \in 1 .. Len(coordinates) |->
                                 coordinate_id(coordinates[k][1], coordinates[k][2])]
              missing == FindMissing(archive_ids, grp_keys)
          IN  /\ grp_dx' = dx
              /\ grp_dy' = dy
              /\ grp_coords' = coordinates
              /\ IF missing # <<>>
                 THEN grp_pc' = "panicked" /\ grp_feed' = <<>>
                 ELSE grp_pc' = "iter" /\ grp_feed' = archive_ids
    /\ UNCHANGED <<grp_keys, grp_count, grp_last>>
    /\ GrpFrame

\* GroupMapSquareIterator::next
GroupNextStep ==
    /\ grp_pc = "iter"
    /\ grp_last.tag # "End"
    /\ IF grp_feed = <<>>
       THEN /\ grp_last' = [NoGroup EXCEPT !.tag = "End"]
            /\ UNCHANGED <<grp_feed, grp_count>>
       ELSE LET core_id == Head(grp_feed)
                group   == group_ids(core_id, grp_dx, grp_dy, grp_keys)
            IN  /\ grp_last' = [tag        |-> "Some",
                                core_id    |-> core_id,
                                core_i     |-> AsU8(BitAnd(core_id, 127)),
                                core_j     |-> AsU8(Shr7(core_id)),
                                mapsquares |-> {<<from_archive(id).i, from_archive(id).j>> :
                                                   id \in group}]
                /\ grp_feed' = Tail(grp_feed)
                /\ grp_count' = grp_count + 1
    /\ UNCHANGED <<grp_keys, grp_pc, grp_coords, grp_dx, grp_dy>>

\* next called by the holder of the iterator
GroupNext == GroupNextStep /\ GrpFrame

NextGrp ==
    \/ New
    \/ NewOnly
    \/ GroupNext

C20_CoordinatesRoundTrip ==
    (grp_pc = "iter" /\ grp_coords # <<>>) =>
        /\ grp_last.tag = "Some" =>
              <<grp_last.core_i, grp_last.core_j>> = grp_coords[grp_count]
        /\ \A k, l \in 1 .. Len(grp_coords) :
              grp_coords[k] # grp_coords[l] =>
                  coordinate_id(grp_coords[k][1], grp_coords[k][2])
                      # coordinate_id(grp_coords[l][1], grp_coords[l][2])

\* The part of C20 that holds: coordinates below 128 come back unchanged
\* and get different ids.
C20_InGridCoordinatesRoundTrip ==
    (/\ grp_pc = "iter" /\ grp_coords # <<>>
     /\ \A k \in 1 .. Len(grp_coords) : grp_coords[k][1] < 128 /\ grp_coords[k][2] < 128) =>
        /\ grp_last.tag = "Some" =>
              <<grp_last.core_i, grp_last.core_j>> = grp_coords[grp_count]
        /\ \A k, l \in 1 .. Len(grp_coords) :
              grp_coords[k] # grp_coords[l] =>
                  coordinate_id(grp_coords[k][1], grp_coords[k][2])
                      # coordinate_id(grp_coords[l][1], grp_coords[l][2])

----------------------------------------------------------------------------
(* ReadError and its context frames (SpecErr) *)

MaxFrames == 3    \* most add_* calls made on one error

\* Location::caller(): the call sites an error passes on its way up
Callers == {"reader", "decoder"}

\* struct ReadError { location, kind }
ReadError(location, kind) == [location |-> location, kind |-> kind]

\* eof, not_nul_terminated, opcode_not_implemented, not_exhausted and, with
\* debug_assertions, duplicate_opcode: each returns Kind::Error(..) at the
\* location of its caller
Constructed(debug) ==
    {ReadError(c, [tag |-> "Error", kind |-> k]) :
        c \in Callers,
        k \in {[name |-> "Eof"], [name |-> "NotNulTerminated"], [name |-> "NotExhausted"],
               [name |-> "OpcodeNotImplemented", opcode |-> 7]}
              \cup (IF debug
                    THEN {[name |-> "DuplicateOpcode", opcodes |-> <<249>>, opcode |-> 249]}
                    ELSE {})}

add_context(self, ctx, caller) ==
    ReadError(caller, [tag |-> "Bubbled", ctx |-> ctx, src |-> self])

add_context_id(self, ctx, caller) ==
    ReadError(caller, [tag |-> "ContextId", ctx |-> ctx, src |-> self])

\* the opcodes parameter exists only with debug_assertions; an absent field
\* is the empty Option
add_decode_context(debug, self, opcodes, remainder, parsed) ==
    ReadError(self.location,
              [tag |-> "DecodeContext", opcodes |-> IF debug THEN <<opcodes>> ELSE <<>>,
               remainder |-> remainder, parsed |-> parsed, src |-> self])

\* impl Error for ReadError: the Option source() returns
source(e) ==
    IF e.kind.tag \in {"ContextId", "Bubbled"} THEN <<e.kind.src>> ELSE <<>>

ErrLabels  == {"archive", "file"}
ErrIds     == {0, 5}
ErrOpcodes == {<<>>, <<249>>}
Remainders == {<<>>, <<1, 2>>}
InitErr ==
    /\ err_debug \in BOOLEAN
    /\ err_cur = <<>>
    /\ err_prev = <<>>
    /\ err_primary = <<>>
    /\ err_calls = 0

ErrFrame == UNCHANGED <<core_vars, st_vars, px_vars, rnd_vars>>

\* a read fails: one of the constructors is called
Raise ==
    /\ err_cur = <<>>
    /\ \E e \in Constructed(err_debug) :
          /\ err_cur' = <<e>>
          /\ err_primary' = <<e>>
    /\ UNCHANGED <<err_debug, err_prev, err_calls>>
    /\ ErrFrame

Wrapped(e) ==
    /\ err_cur' = <<e>>
    /\ err_prev' = err_cur
    /\ err_calls' = err_calls + 1
    /\ UNCHANGED <<err_debug, err_primary>>
    /\ ErrFrame

AddContext ==
    /\ err_cur # <<>>
    /\ err_calls < MaxFrames
    /\ \E ctx \in ErrLabels, caller \in Callers :
          Wrapped(add_context(err_cur[1], ctx, caller))

AddContextId ==
    /\ err_cur # <<>>
    /\ err_calls < MaxFrames
    /\ \E ctx \in ErrIds, caller \in Callers :
          Wrapped(add_context_id(err_cur[1], ctx, caller))

AddDecodeContext ==
    /\ err_cur # <<>>
    /\ err_calls < MaxFrames
    /\ \E opcodes \in ErrOpcodes, remainder \in Remainders :
          Wrapped(add_decode_context(err_debug, err_cur[1], opcodes, remainder, "Struct"))

NextErr == Raise \/ AddContext \/ AddContextId \/ AddDecodeContext

\* the Box<ReadError> a frame holds
Boxed(e) == IF e.kind.tag = "Error" THEN <<>> ELSE <<e.kind.src>>

RECURSIVE Innermost(_)
Innermost(e) == IF Boxed(e) = <<>> THEN e ELSE Innermost(Boxed(e)[1])

\* where following source() from e ends
RECURSIVE FollowSource(_)
FollowSource(e) == IF source(e) = <<>> THEN e ELSE FollowSource(source(e)[1])

RECURSIVE HasTrailFrame(_)
HasTrailFrame(e) ==
    \/ e.kind.tag = "DecodeContext"
    \/ Boxed(e) # <<>> /\ HasTrailFrame(Boxed(e)[1])

PrimaryKinds == {"Eof", "NotNulTerminated", "NotExhausted", "OpcodeNotImplemented"}

\* C22: after any number of add_context, add_context_id and
\* add_decode_context calls in any order, each new frame wraps the previous
\* error unchanged, the primary kind is still the innermost frame, and it is
\* reached by following source() from the outermost frame.
C22_PrimaryKindReachedBySource ==
    (err_calls > 0 /\ err_primary[1].kind.kind.name \in PrimaryKinds) =>
        /\ Boxed(err_cur[1]) = err_prev
        /\ Innermost(err_cur[1]) = err_primary[1]
        /\ FollowSource(err_cur[1]) = err_primary[1]

\* The part of C22 that holds: frames wrap what they are given unchanged and
\* the primary kind stays innermost; source() leads to it exactly when no
\* decode trail frame lies on the way, and otherwise ends at the outermost
\* such frame.
C22_FramesWrapUnchanged ==
    (err_calls > 0) =>
        /\ Boxed(err_cur[1]) = err_prev
        /\ Innermost(err_cur[1]) = err_primary[1]
        /\ (FollowSource(err_cur[1]) = err_primary[1]) <=> ~HasTrailFrame(err_cur[1])
        /\ HasTrailFrame(err_cur[1]) =>
               FollowSource(err_cur[1]).kind.tag = "DecodeContext"

----------------------------------------------------------------------------
(* Struct::deserialize (SpecStruct) *)

MaxFileLen == 4    \* most bytes of a struct config file

\* Buffer::read_unsigned_byte, an unchecked read like the others of Buffer
read_unsigned_byte(b) == get_u8(b)

\* ParamTable::deserialize(&mut buffer): reads n of the bytes that remain
ParamTable_deserialize(b, n) ==
    IF n > Len(b) THEN Rd("Panic", 0, b) ELSE Rd("Ok", 1, Drop(b, n))

\* what a call ends with: the record (with its params, an Option) or a panic;
\* "Err" is the Result a caller could match on, which the signature
\* `-> Self` has no room for
StOut(tag, kind, params) == [tag |-> tag, kind |-> kind, params |-> params]
StRunning == StOut("None", <<>>, <<>>)

\* one turn of `loop { match buffer.read_unsigned_byte() { .. } }`
Struct_deserialize(debug, buffer, params, n) ==
    LET r == read_unsigned_byte(buffer)
    IN  IF r.tag = "Panic"
        THEN [buf |-> r.buf, params |-> params, out |-> StOut("Panic", <<>>, <<>>)]
        ELSE IF r.val = 0
        THEN IF debug /\ remaining(r.buf) # 0       \* debug_assert_eq!
             THEN [buf |-> r.buf, params |-> params, out |-> StOut("Panic", <<>>, <<>>)]
             ELSE [buf |-> r.buf, params |-> params, out |-> StOut("Record", <<>>, params)]
        ELSE IF r.val = 249
        THEN LET t == ParamTable_deserialize(r.buf, n)
             IN  IF t.tag = "Panic"
                 THEN [buf |-> t.buf, params |-> params,
                       out |-> StOut("Panic", <<>>, <<>>)]
                 ELSE [buf |-> t.buf, params |-> <<t.val>>, out |-> StRunning]
        ELSE [buf |-> r.buf, params |-> params,
              out |-> StOut("Panic", <<>>, <<>>)]    \* unimplemented!

StructBytes == {0, 1, 7, 249}

InitStruct ==
    /\ st_debug \in BOOLEAN
    /\ st_in \in SeqsUpTo(StructBytes, MaxFileLen)
    /\ st_buf = st_in
    /\ st_ops = <<>>
    /\ st_params = <<>>
    /\ st_out = StRunning

StructDeserialize ==
    /\ st_out = StRunning
    /\ \E n \in 0 .. Len(st_buf) :
          LET step == Struct_deserialize(st_debug, st_buf, st_params, n)
          IN  /\ st_buf' = step.buf
              /\ st_params' = step.params
              /\ st_out' = step.out
              /\ st_ops' = IF st_buf = <<>> THEN st_ops ELSE Append(st_ops, st_buf[1])
    /\ UNCHANGED <<st_debug, st_in>>
    /\ UNCHANGED <<core_vars, err_vars, px_vars, rnd_vars>>

NextStruct == StructDeserialize

LastOpcode == st_ops[Len(st_ops)]

\* C23: Struct::deserialize reads one opcode per step until it reads opcode
\* 0 and reports a malformed record as a read error value: NotExhausted when
\* opcode 0 is read while bytes remain, OpcodeNotImplemented(op) when an
\* opcode other than 0 and 249 is read; a record is returned only when
\* opcode 0 is read with the buffer exhausted.
C23_MalformedRecordIsReadError ==
    (st_out # StRunning /\ st_ops # <<>>) =>
        /\ (LastOpcode = 0 /\ st_buf # <<>>) =>
               st_out = StOut("Err", <<[name |-> "NotExhausted"]>>, <<>>)
        /\ (LastOpcode \notin {0, 249}) =>
               st_out = StOut("Err", <<[name |-> "OpcodeNotImplemented",
                                        opcode |-> LastOpcode]>>, <<>>)
        /\ (st_out.tag = "Record") => (LastOpcode = 0 /\ st_buf = <<>>)

\* What the code does: the loop reads one opcode per turn and ends at the
\* first opcode other than 249; it returns the record when that opcode is 0
\* (in a build with debug_assertions only if the buffer is exhausted) and
\* panics in every other case; no call ends with an error value.
C23_StructDeserializeOutcomes ==
    /\ st_out.tag \in {"None", "Record", "Panic"}
    /\ \A k \in 1 .. Len(st_ops) - 1 : st_ops[k] = 249
    /\ (st_out = StRunning /\ st_ops # <<>>) => LastOpcode = 249
    /\ (st_out.tag = "Record") <=>
           (st_ops # <<>> /\ LastOpcode = 0 /\ (st_buf = <<>> \/ ~st_debug))

----------------------------------------------------------------------------
(* save_smallest: the pixel of plane `plane` at one (x, y) (SpecPixel) *)

Planes == 0 .. 3           \* for plane in 0..=3; imgs: [Img; 4]

\* Rgba<u8> as <<r, g, b, a>>
PixelVals == {<<0, 0, 0, 0>>, <<255, 7, 1, 255>>, <<10, 20, 30, 0>>, <<1, 1, 1, 128>>}
NoPixel == <<>>

\* (0..=plane).rev() as the values it has yet to yield
rev_range(plane) == [k \in 1 .. plane + 1 |-> plane + 1 - k]

\* pixel.map_without_alpha(|channel| channel / 2)
map_without_alpha(pixel) ==
    <<pixel[1] \div 2, pixel[2] \div 2, pixel[3] \div 2, pixel[4]>>

\* Mutant of exit_condition: the test on p is left out
exit_on_alpha_only(p, pixel) == pixel[4] # 0

\* if p == 0 || pixel[3] != 0
exit_condition(p, pixel) == p = 0 \/ pixel[4] # 0

\* one turn of the loop in the closure given to from_fn: what i.next()
\* yields, the pixel read and, on exit, the value of the break
search_step(imgs, plane, i) ==
    IF i = <<>> \/ i[1] \notin DOMAIN imgs
    THEN [pc |-> "ub", i |-> i, p |-> -1, out |-> NoPixel]
    ELSE LET p == i[1]
             pixel == imgs[p]
         IN  IF exit_condition(p, pixel)
             THEN [pc |-> "done", i |-> Drop(i, 1), p |-> p,
                   out |-> IF p = plane THEN pixel ELSE map_without_alpha(pixel)]
             ELSE [pc |-> "loop", i |-> Drop(i, 1), p |-> p, out |-> NoPixel]

InitPixel ==
    /\ px_imgs \in [Planes -> PixelVals]
    /\ px_plane \in Planes
    /\ px_iter = rev_range(px_plane)
    /\ px_used = <<>>
    /\ px_out = NoPixel
    /\ px_pc = "loop"

\* unwrap_unchecked on None, or get_unchecked past the array, is undefined:
\* the closure may then return any pixel or not return at all
SearchStep ==
    /\ px_pc = "loop"
    /\ LET step == search_step(px_imgs, px_plane, px_iter)
       IN  /\ px_pc' = step.pc
           /\ px_iter' = step.i
           /\ px_used' = Append(px_used, step.p)
           /\ IF step.pc = "ub" THEN px_out' \in PixelVals \cup {NoPixel}
              ELSE px_out' = step.out
    /\ UNCHANGED <<px_imgs, px_plane>>
    /\ UNCHANGED <<core_vars, err_vars, st_vars, rnd_vars>>

NextPixel == SearchStep

\* the first plane at or below `plane`, going down, whose pixel has non-zero
\* alpha, else plane 0
RECURSIVE FirstVisible(_, _)
FirstVisible(imgs, p) ==
    IF p = 0 \/ imgs[p][4] # 0 THEN p ELSE FirstVisible(imgs, p - 1)

\* C24: for every plane and pixel the descending search stops at some p in
\* 0..plane before the plane iterator is exhausted (at the first p whose
\* pixel has non-zero alpha, else at 0), every p used is a valid index into
\* the four images, and the chosen pixel is returned unchanged when
\* p == plane and with its colour channels halved, alpha kept, otherwise.
C24_SearchStopsAtFirstVisiblePlane ==
    /\ px_pc # "ub"
    /\ \A k \in 1 .. Len(px_used) :
           px_used[k] \in Planes /\ px_used[k] = px_plane - (k - 1)
    /\ (px_pc = "done") =>
           LET p == px_used[Len(px_used)]
               chosen == px_imgs[p]
           IN  /\ p = FirstVisible(px_imgs, px_plane)
               /\ 0 <= p /\ p <= px_plane
               /\ px_out = IF p = px_plane THEN chosen
                           ELSE <<chosen[1] \div 2, chosen[2] \div 2,
                                  chosen[3] \div 2, chosen[4]>>

\* plane 3 over two transparent planes: the search fell through to plane 1
\* and returned its pixel at half brightness
C24_Witness ==
    /\ px_pc = "done"
    /\ px_plane = 3
    /\ px_used = <<3, 2, 1>>
    /\ px_imgs[1] = <<255, 7, 1, 255>>
    /\ px_out = <<127, 3, 0, 255>>

----------------------------------------------------------------------------
(* inner_render: groups rendered by parallel workers (SpecRender) *)

NumWorkers == 2    \* threads that par_bridge feeds
Workers == 1 .. NumWorkers

\* CONFIG.initial_zoom: RenderConfig::fast() and RenderConfig::detailed()
ZoomConfigs == {2, 4}

\* Mutant of tile_files: the zoom 4 and zoom 3 tiles are not scaled
tile_files_unscaled(initial_zoom, i, j) ==
    (IF initial_zoom >= 4
     THEN {<<4, plane, i + x, j + y>> : plane \in Planes, x \in 0 .. 3, y \in 0 .. 3}
     ELSE {})
        \cup (IF initial_zoom >= 3
              THEN {<<3, plane, i + x, j + y>> : plane \in Planes, x \in 0 .. 1, y \in 0 .. 1}
              ELSE {})
        \cup (IF initial_zoom >= 2 THEN {<<2, plane, i, j>> : plane \in Planes} ELSE {})

\* the files save_smallest(folder, i, j, imgs) may save, as
\* <<zoom, plane, xx, yy>> for "{map_id}/{zoom}/{plane}_{xx}_{yy}.png"
\* (a tile is saved unless all its pixels are transparent)
tile_files(initial_zoom, i, j) ==
    (IF initial_zoom >= 4
     THEN {<<4, plane, i * 4 + x, j * 4 + y>> : plane \in Planes, x \in 0 .. 3, y \in 0 .. 3}
     ELSE {})
        \cup (IF initial_zoom >= 3
              THEN {<<3, plane, i * 2 + x, j * 2 + y>> :
                       plane \in Planes, x \in 0 .. 1, y \in 0 .. 1}
              ELSE {})
        \cup (IF initial_zoom >= 2 THEN {<<2, plane, i, j>> : plane \in Planes} ELSE {})

InitRender ==
    /\ rnd_zoom \in ZoomConfigs
    /\ rnd_job = [w \in Workers |-> 0]
    /\ rnd_items = <<>>
    /\ rnd_saved = 0

RndFrame == UNCHANGED <<idx_vars, buf_vars, sm_vars, dec_vars, cat_vars,
                        err_vars, st_vars, px_vars>>

\* render: GroupMapSquareIterator::new(-1..=1, -1..=1), then inner_render
Render ==
    /\ New
    /\ grp_dx' = <<-1, 1>>
    /\ grp_dy' = <<-1, 1>>

\* render_bench and the tests: new_only(-1..=1, -1..=1, coordinates), then
\* inner_render
RenderOnly ==
    /\ NewOnly
    /\ grp_dx' = <<-1, 1>>
    /\ grp_dy' = <<-1, 1>>

\* par_bridge: an idle worker locks the iterator and calls next; the item,
\* if there is one, is moved into the closure of for_each
Take(w) ==
    /\ rnd_job[w] = 0
    /\ GroupNextStep
    /\ IF grp_last'.tag = "Some"
       THEN /\ rnd_items' = Append(rnd_items, [id |-> grp_last'.core_id,
                                               i |-> grp_last'.core_i,
                                               j |-> grp_last'.core_j])
            /\ rnd_job' = [rnd_job EXCEPT ![w] = Len(rnd_items) + 1]
       ELSE UNCHANGED <<rnd_items, rnd_job>>
    /\ UNCHANGED <<rnd_zoom, rnd_saved>>
    /\ RndFrame

\* render_tile: the worker paints the four planes and save_smallest saves
\* the tiles of the group's core square
RenderTile(w) ==
    /\ rnd_job[w] # 0
    /\ rnd_job' = [rnd_job EXCEPT ![w] = 0]
    /\ rnd_saved' = rnd_saved + 1
    /\ UNCHANGED <<rnd_zoom, rnd_items>>
    /\ UNCHANGED grp_vars
    /\ RndFrame

NextRender ==
    \/ Render
    \/ RenderOnly
    \/ \E w \in Workers : Take(w)
    \/ \E w \in Workers : RenderTile(w)

\* the files of the p-th item the iterator yielded
FilesOf(p) == tile_files(rnd_zoom, rnd_items[p].i, rnd_items[p].j)

\* no item is held by two workers
HandedToOneWorker ==
    /\ \A w, v \in Workers : (w # v /\ rnd_job[w] # 0) => rnd_job[w] # rnd_job[v]
    /\ \A w \in Workers : rnd_job[w] \in 0 .. Len(rnd_items)
    /\ Len(rnd_items) = grp_count

\* every item yielded has been rendered or is held by a worker
RenderedOnce ==
    rnd_saved + Cardinality({w \in Workers : rnd_job[w] # 0}) = Len(rnd_items)

----------------------------------------------------------------------------
(* Each specification runs one component and holds the others still *)

IdleIdx ==
    /\ index_id = 0 /\ metadatas = <<>> /\ state = "Closed" /\ feed = <<>>
    /\ store_reads = 0 /\ store_arg = <<>> /\ last = NoCall /\ requested = <<>>
    /\ retained = <<>> /\ from_state = "" /\ direct_calls = 0 /\ none_calls = 0
IdleBuf == buf = <<>> /\ pre = <<>> /\ op = [name |-> "new", n |-> 0]
           /\ res = [tag |-> "None", val |-> 0]
IdleSm  == sm_lead = 0 /\ sm_buf = <<>> /\ sm_in = <<>> /\ sm_value = <<0, 0>>
           /\ sm_read = <<>> /\ sm_pc = "idle"

IdleDec == dec_build = "rs3" /\ dec_in = <<>> /\ dec_size = <<>> /\ dec_key = <<>>
           /\ dec_out = [tag |-> "None", err |-> "", val |-> <<>>]

IdleCat == cat_index = 0 /\ cat_checks = FALSE /\ cat_src = [kind |-> "raw"]
           /\ cat_in = <<>> /\ cat_out = NotParsed

IdleGrp == grp_keys = {} /\ grp_pc = "idle" /\ grp_coords = <<>> /\ grp_dx = <<0, 0>>
           /\ grp_dy = <<0, 0>> /\ grp_feed = <<>> /\ grp_count = 0 /\ grp_last = NoGroup

IdleErr == err_debug = FALSE /\ err_cur = <<>> /\ err_prev = <<>> /\ err_primary = <<>>
           /\ err_calls = 0

IdleSt  == st_debug = FALSE /\ st_in = <<>> /\ st_buf = <<>> /\ st_ops = <<>>
           /\ st_params = <<>> /\ st_out = StOut("Idle", <<>>, <<>>)

IdlePx  == px_imgs = <<>> /\ px_plane = 0 /\ px_iter = <<>> /\ px_used = <<>>
           /\ px_out = NoPixel /\ px_pc = "idle"

IdleRnd == rnd_zoom = 0 /\ rnd_job = <<>> /\ rnd_items = <<>> /\ rnd_saved = 0

IdleMore == IdleErr /\ IdleSt /\ IdlePx /\ IdleRnd

Init == InitIdx /\ IdleBuf /\ IdleSm /\ IdleDec /\ IdleCat /\ IdleGrp /\ IdleMore
Next == NextIdx
Spec == Init /\ [][Next]_vars

InitB == InitBuf /\ IdleIdx /\ IdleSm /\ IdleDec /\ IdleCat /\ IdleGrp /\ IdleMore
NextB == NextBuf
SpecBuf == InitB /\ [][NextB]_vars

InitM == InitMasked /\ IdleIdx /\ IdleSm /\ IdleDec /\ IdleCat /\ IdleGrp /\ IdleMore
NextM == NextMasked
SpecMasked == InitM /\ [][NextM]_vars

InitS == InitSmarts /\ IdleIdx /\ IdleBuf /\ IdleDec /\ IdleCat /\ IdleGrp /\ IdleMore
NextS == NextSmarts
SpecSmarts == InitS /\ [][NextS]_vars

InitD == InitDec /\ IdleIdx /\ IdleBuf /\ IdleSm /\ IdleCat /\ IdleGrp /\ IdleMore
NextD == NextDec
SpecDec == InitD /\ [][NextD]_vars

InitC == InitCat /\ IdleIdx /\ IdleBuf /\ IdleSm /\ IdleDec /\ IdleGrp /\ IdleMore
NextC == NextCat
SpecMeta == InitC /\ [][NextC]_vars

InitG == InitGrp /\ IdleIdx /\ IdleBuf /\ IdleSm /\ IdleDec /\ IdleCat /\ IdleMore
NextG == NextGrp
SpecGroup == InitG /\ [][NextG]_vars

IdleCore == IdleIdx /\ IdleBuf /\ IdleSm /\ IdleDec /\ IdleCat /\ IdleGrp

InitE == InitErr /\ IdleCore /\ IdleSt /\ IdlePx /\ IdleRnd
NextE == NextErr
SpecErr == InitE /\ [][NextE]_vars

InitT == InitStruct /\ IdleCore /\ IdleErr /\ IdlePx /\ IdleRnd
NextT == NextStruct
SpecStruct == InitT /\ [][NextT]_vars

InitP == InitPixel /\ IdleCore /\ IdleErr /\ IdleSt /\ IdleRnd
NextP == NextPixel
SpecPixel == InitP /\ [][NextP]_vars

InitR == InitRender /\ InitGrp /\ IdleIdx /\ IdleBuf /\ IdleSm /\ IdleDec /\ IdleCat
             /\ IdleErr /\ IdleSt /\ IdlePx
NextR == NextRender
SpecRender == InitR /\ [][NextR]_vars

====
